---- MODULE Spec2Model ----
(***************************************************************************)
(* A model of the authorization-logic engine of lab2: the term, judgement, *)
(* sequent and proof data model (logic.py), substitution and the matcher   *)
(* (logic.py), the per-rule proof verifier (verifier.py), and certificate  *)
(* chain / access request verification (crypto.py).                        *)
(*                                                                         *)
(* Python values are represented by records of one shape per sort, so that *)
(* structural equality of the model is structural equality of the code:    *)
(*   Formula   [k, n, a]   k: "var" | "agent" | "key" | "res" | "app" |     *)
(*                            "forall"; n: the id, the operator name or    *)
(*                            the bound variable's id; a: the arguments    *)
(*                            (the body, for a quantifier).  App.arity is  *)
(*                            Len(a).                                      *)
(*   Judgement [j, a, p]   j: "prop" | "aff"                                *)
(*   Sequent   [gamma, delta]   gamma a sequence (a Python list)           *)
(*   Proof     [t, premises, conclusion, rule]   t: "proof", or "seq" for  *)
(*                            a bare Sequent standing as a premise         *)
(* A raised Python exception is an outcome of its own, never a result.     *)
(***************************************************************************)
EXTENDS Naturals, Sequences, FiniteSets, TLC

VARIABLES
    pc,         \* position of the operation under check
    pf,         \* verifier: the proof handed to verify
    hashOrder,  \* verifier: iteration order of the 2-element set of verifier.py:158
    result,     \* verifier: what verify returned (or the exception it raised)
    cert,       \* chain: the certificate handed to verify_cert
    chain,      \* chain: the dict Agent -> Certificate
    roots,      \* chain and request: the trusted roots
    certResult, \* chain: what verify_cert returned or raised
    req,        \* request: the AccessRequest handed to verify_request
    gamma,      \* request: the context verify_request reconstructs
    reqResult,  \* request: what verify_request returned or raised
    arg,        \* library functions: the arguments of the call under check
    ret         \* library functions: what the call returned or raised

vars == <<pc, pf, hashOrder, result, cert, chain, roots, certResult, req, gamma, reqResult, arg, ret>>

Range(s) == { s[i] : i \in DOMAIN s }

RECURSIVE SetToSeq(_)
SetToSeq(S) == IF S = {} THEN <<>>
               ELSE LET x == CHOOSE y \in S : TRUE IN <<x>> \o SetToSeq(S \ {x})

(***************************************************************************)
(* logic.py: the data model                                                *)
(***************************************************************************)
Nil == [k |-> "nil", n |-> "", a |-> <<>>]

Variable(id) == [k |-> "var", n |-> id, a |-> <<>>]
Agent(id)    == [k |-> "agent", n |-> id, a |-> <<>>]
Key(fp)      == [k |-> "key", n |-> fp, a |-> <<>>]
Resource(id) == [k |-> "res", n |-> id, a |-> <<>>]
App(op, args) == [k |-> "app", n |-> op, a |-> args]
Forall(x, p) == [k |-> "forall", n |-> x.n, a |-> <<p>>]

IsVariable(f) == f.k = "var"
IsApp(f)      == f.k = "app"
IsForall(f)   == f.k = "forall"
IsOp(f, op)   == f.k = "app" /\ f.n = op

Proposition(p)    == [j |-> "prop", a |-> Nil, p |-> p]
Affirmation(a, p) == [j |-> "aff", a |-> a, p |-> p]
IsProposition(jd) == jd.j = "prop"
IsAffirmation(jd) == jd.j = "aff"

Sequent(gam, delta) == [gamma |-> gam, delta |-> delta]

Proof(premises, conclusion, rule) ==
    [t |-> "proof", premises |-> premises, conclusion |-> conclusion, rule |-> rule]
Leaf(seq) == [t |-> "seq", premises |-> <<>>, conclusion |-> seq, rule |-> "-"]
IsProof(x) == x.t = "proof"
IsSequent(x) == x.t = "seq"

(***************************************************************************)
(* logic.py: substitutions are dicts; a key is any hashable value          *)
(***************************************************************************)
EmptyRho == [x \in {} |-> Nil]
Put(rho, key, val) == [x \in (DOMAIN rho) \cup {key} |-> IF x = key THEN val ELSE rho[x]]
Without(rho, keys) == [x \in (DOMAIN rho) \ keys |-> rho[x]]

\* apply_formula that treats a quantifier as it treats a template hole:
\* the result is the substituted body, without the binder
RECURSIVE apply_formula_unbind(_, _)
apply_formula_unbind(p, rho) ==
    CASE p.k = "var" -> IF p \in DOMAIN rho THEN rho[p] ELSE p
      [] p.k = "app" ->
            IF p.n = "OTHER" THEN apply_formula_unbind(p.a[1], rho)
            ELSE App(p.n, [i \in DOMAIN p.a |-> apply_formula_unbind(p.a[i], rho)])
      [] p.k = "forall" -> apply_formula_unbind(p.a[1], Without(rho, {Variable(p.n)}))
      [] OTHER -> p

RECURSIVE apply_formula(_, _)
apply_formula(p, rho) ==
    CASE p.k = "var" -> IF p \in DOMAIN rho THEN rho[p] ELSE p
      [] p.k = "app" ->
            IF p.n = "OTHER" THEN apply_formula(p.a[1], rho)
            ELSE App(p.n, [i \in DOMAIN p.a |-> apply_formula(p.a[i], rho)])
      [] p.k = "forall" ->
            Forall(Variable(p.n), apply_formula(p.a[1], Without(rho, {Variable(p.n)})))
      [] OTHER -> p

(***************************************************************************)
(* matchs returns a dict, None, or raises: [st, rho] with st "ok", "None"  *)
(* or the name of the exception.                                           *)
(***************************************************************************)
Some(rho) == [st |-> "ok", rho |-> rho]
None == [st |-> "None", rho |-> EmptyRho]
Raise(e) == [st |-> e, rho |-> EmptyRho]

Zip(a1, a2) == [i \in 1..(IF Len(a1) < Len(a2) THEN Len(a1) ELSE Len(a2)) |-> <<a1[i], a2[i]>>]

RECURSIVE matchs(_, _)
matchs(eqs, rho) ==
    IF Len(eqs) = 0 THEN Some(rho)
    ELSE
    LET t == eqs[1][1]
        o == eqs[1][2]
        rest == Tail(eqs)
    IN
    CASE IsVariable(t) ->
            IF t \in DOMAIN rho
            THEN (IF rho[t] = o THEN matchs(rest, rho) ELSE None)
            ELSE matchs(rest, Put(rho, t, o))
      [] IsOp(t, "OTHER") ->
            \* a[0].id: only Variable, Agent and Resource carry an id
            IF t.a[1].k \notin {"var", "agent", "res"} THEN Raise("AttributeError")
            ELSE
            LET pl_p == Variable("@P" \o t.a[1].n) IN
            IF pl_p \in DOMAIN rho
            THEN
                LET rho_p0 == IF t.a[2] \in DOMAIN rho
                              THEN Put(rho, rho[pl_p], rho[t.a[2]])
                              ELSE Put(rho, t.a[2], rho[pl_p])
                IN
                IF t.a[1] \notin DOMAIN rho THEN Raise("KeyError")
                ELSE
                LET r == matchs(<< <<rho[t.a[1]], o>> >>, rho_p0) IN
                IF r.st = "ok"
                THEN
                    IF rho[pl_p] \notin DOMAIN r.rho THEN Raise("KeyError")
                    ELSE
                    LET pl_v == r.rho[rho[pl_p]]
                        rho2 == Without(r.rho, {rho[pl_p], t.a[2]})
                    IN matchs(rest, Put(rho2, t.a[2], pl_v))
                ELSE r
            ELSE matchs(rest, Put(Put(rho, t.a[1], o), pl_p, t.a[2]))
      [] IsApp(t) /\ ~IsOp(t, "OTHER") /\ IsApp(o) ->
            IF t.n = o.n /\ Len(t.a) = Len(o.a)
            THEN matchs(Zip(t.a, o.a) \o rest, rho)
            ELSE None
      [] IsForall(t) /\ IsForall(o) ->
            LET x1 == Variable(t.n)
                x2 == Variable(o.n)
                rho_x == Without(rho, {x1})
                r == matchs(<< <<t.a[1], apply_formula(o.a[1], Put(EmptyRho, x2, x1))>> >> \o rest, rho_x)
            IN
            IF r.st \notin {"ok", "None"} THEN r
            ELSE IF x1 \in DOMAIN rho
                 THEN (IF r.st = "None" THEN Raise("TypeError")
                       ELSE Some(Without(Put(r.rho, x1, rho[x1]), {x1})))
                 ELSE (IF r.st = "None" THEN None ELSE Some(Without(r.rho, {x1})))
      [] OTHER -> IF t = o THEN matchs(rest, rho) ELSE None

(***************************************************************************)
(* logic.py: apply_judgement, apply_sequent, matchs_judgement and          *)
(* matchs_sequent.  matchs_judgement updates the dict it is given in place *)
(* (`rho |= ...`, line 246), so its outcome carries, next to the result of *)
(* matchs, the dict as the caller finds it afterwards (env).  The          *)
(* generator matchs_sequent is the list of substitutions it yields, in     *)
(* order, and the exception that ended it, if any.                         *)
(***************************************************************************)
apply_judgement(jd, rho) ==
    IF IsProposition(jd) THEN Proposition(apply_formula(jd.p, rho))
    ELSE Affirmation(IF jd.a \in DOMAIN rho THEN rho[jd.a] ELSE jd.a, apply_formula(jd.p, rho))

apply_sequent(seq, rho) ==
    Sequent([i \in DOMAIN seq.gamma |-> apply_judgement(seq.gamma[i], rho)],
            apply_judgement(seq.delta, rho))

\* the loop of lines 240-251: the formula equations collected, and rho as updated
RECURSIVE judgement_eqs(_, _, _)
judgement_eqs(eqs, rho, fmla_eqs) ==
    IF Len(eqs) = 0 THEN [st |-> "ok", env |-> rho, fmla_eqs |-> fmla_eqs]
    ELSE
    LET t == eqs[1][1]
        o == eqs[1][2]
    IN
    CASE IsProposition(t) /\ IsProposition(o) ->
            judgement_eqs(Tail(eqs), rho, Append(fmla_eqs, <<t.p, o.p>>))
      [] IsAffirmation(t) /\ IsVariable(t.a) /\ IsAffirmation(o) ->
            judgement_eqs(Tail(eqs), Put(rho, t.a, o.a), Append(fmla_eqs, <<t.p, o.p>>))
      [] IsAffirmation(t) /\ t.a.k = "agent" /\ IsAffirmation(o) /\ o.a.k = "agent" /\ t.a.n = o.a.n ->
            judgement_eqs(Tail(eqs), rho, Append(fmla_eqs, <<t.p, o.p>>))
      [] OTHER -> [st |-> "None", env |-> rho, fmla_eqs |-> fmla_eqs]

\* r is the substitution handed in: Some(rho) or None
matchs_judgement(eqs, r) ==
    IF Len(eqs) = 0 \/ r.st = "None" THEN [st |-> r.st, rho |-> r.rho, env |-> r.rho]
    ELSE
    LET c == judgement_eqs(eqs, r.rho, <<>>) IN
    IF c.st = "None" THEN [st |-> "None", rho |-> EmptyRho, env |-> c.env]
    ELSE LET m == matchs(c.fmla_eqs, c.env) IN [st |-> m.st, rho |-> m.rho, env |-> c.env]

\* itertools.permutations(range(1, n+1), k), in the order itertools gives
PrefixAll(i, ps) == [j \in DOMAIN ps |-> <<i>> \o ps[j]]
RECURSIVE permutations(_, _, _, _)
permutations(n, k, used, i) ==
    IF k = 0 THEN << <<>> >>
    ELSE IF i > n THEN <<>>
    ELSE (IF i \in used THEN <<>> ELSE PrefixAll(i, permutations(n, k - 1, used \cup {i}, 1)))
         \o permutations(n, k, used, i + 1)

\* the for loop of lines 285-288 from the j-th pairing on; r is the dict the
\* loop works on, updated in place by matchs_judgement
RECURSIVE match_pairings(_, _, _, _, _, _)
match_pairings(gamma1, gamma2, perms, j, r, yields) ==
    IF j > Len(perms) THEN [yields |-> yields, err |-> "none"]
    ELSE
    LET eq == [i \in DOMAIN gamma1 |-> <<gamma1[i], gamma2[perms[j][i]]>>]
        rho_c == matchs_judgement(eq, r)
    IN
    IF rho_c.st \notin {"ok", "None"} THEN [yields |-> yields, err |-> rho_c.st]
    ELSE match_pairings(gamma1, gamma2, perms, j + 1, [r EXCEPT !.rho = rho_c.env],
                        IF rho_c.st = "ok" THEN Append(yields, rho_c.rho) ELSE yields)

matchs_sequent(seq1, seq2, rho) ==
    LET first == IF apply_sequent(seq1, rho) = seq2 THEN <<rho>> ELSE <<>>
        d == matchs_judgement(<< <<seq1.delta, seq2.delta>> >>, Some(rho))
    IN
    IF d.st \notin {"ok", "None"} THEN [yields |-> first, err |-> d.st]
    ELSE IF Len(seq1.gamma) = 0 /\ d.st = "ok" THEN [yields |-> Append(first, d.rho), err |-> "none"]
    ELSE IF Len(seq1.gamma) <= Len(seq2.gamma)
    THEN match_pairings(seq1.gamma, seq2.gamma,
                        permutations(Len(seq2.gamma), Len(seq1.gamma), {}, 1), 1,
                        [st |-> d.st, rho |-> d.rho], first)
    ELSE [yields |-> first, err |-> "none"]

(***************************************************************************)
(* util.py: allvars                                                        *)
(***************************************************************************)
RECURSIVE allvars_formula(_)
allvars_formula(p) ==
    CASE p.k = "var" -> {p}
      [] p.k = "app" -> UNION { allvars_formula(p.a[i]) : i \in DOMAIN p.a }
      [] p.k = "forall" -> allvars_formula(p.a[1]) \ {Variable(p.n)}
      [] OTHER -> {}

allvars_judgement(jd) ==
    IF IsAffirmation(jd) /\ IsVariable(jd.a)
    THEN {jd.a} \cup allvars_formula(jd.p)
    ELSE allvars_formula(jd.p)

allvars_sequent(seq) ==
    allvars_judgement(seq.delta) \cup UNION { allvars_judgement(q) : q \in Range(seq.gamma) }

(***************************************************************************)
(* proofrules.py: the names of the calculus                                *)
(***************************************************************************)
calculus == {"id", "botL", "->R", "->L", "->Laff", "@R", "@L", "@Laff", "W",
             "cut", "affcut", "aff", "saysL", "saysR", "sign", "cert"}

(***************************************************************************)
(* verifier.py: one predicate per rule.  Each returns "True", "False" or   *)
(* the name of the exception the Python code raises.                       *)
(***************************************************************************)
GammaSet(seq) == Range(seq.gamma)
PremGamma(pr, i) == Range(pr.premises[i].conclusion.gamma)
PremDelta(pr, i) == pr.premises[i].conclusion.delta
Bool(b) == IF b THEN "True" ELSE "False"

verify_identity(pr) ==
    IF Len(pr.premises) > 0 THEN "False"
    ELSE IF ~IsProposition(pr.conclusion.delta) THEN "False"
    ELSE IF pr.conclusion.delta \notin GammaSet(pr.conclusion) THEN "False"
    ELSE "True"

\* verifier.py:55-59 prints its diagnostic and falls through to `return True`
verify_botl(pr) ==
    IF Len(pr.premises) > 0 THEN "False"
    ELSE IF ~IsProposition(pr.conclusion.delta) THEN "False"
    ELSE "True"

verify_impright(pr) ==
    IF Len(pr.premises) # 1 THEN "False"
    ELSE IF ~IsProposition(pr.conclusion.delta) THEN "False"
    ELSE IF ~IsOp(pr.conclusion.delta.p, "IMPLIES") THEN "False"
    ELSE
    LET ant == pr.conclusion.delta.p.a[1]
        suc == pr.conclusion.delta.p.a[2]
    IN
    IF Proposition(suc) # PremDelta(pr, 1) THEN "False"
    ELSE IF PremGamma(pr, 1) \ (GammaSet(pr.conclusion) \cup {Proposition(ant)}) # {} THEN "False"
    ELSE "True"

verify_impleft(pr) ==
    IF { p \in GammaSet(pr.conclusion) : IsOp(p.p, "IMPLIES") } = {} THEN "False"
    ELSE IF Len(pr.premises) # 2 THEN "False"
    ELSE
    LET delta0 == PremDelta(pr, 1)
        delta1 == PremDelta(pr, 2)
    IN
    IF pr.conclusion.delta # delta1 THEN "False"
    ELSE IF PremGamma(pr, 1) \ GammaSet(pr.conclusion) # {} THEN "False"
    ELSE
    LET extra_assumes == PremGamma(pr, 2) \ GammaSet(pr.conclusion)
        bad_assumes == { p \in extra_assumes :
                           Proposition(App("IMPLIES", <<delta0.p, p.p>>)) \notin GammaSet(pr.conclusion) }
    IN Bool(bad_assumes = {})

\* list(set(gamma) ^ set(pf.conclusion.gamma)) of two elements, in the order ord
SymDiffList(S, ord) ==
    LET x == CHOOSE y \in S : TRUE
        z == CHOOSE y \in S \ {x} : TRUE
    IN IF ord = 0 THEN <<x, z>> ELSE <<z, x>>

\* the message of verifier.py:170 and 174, built only when feedback is on:
\* prems[0].p.p fails unless the first listed assumption is the quantified one
could_not_unify(prems, feedback) ==
    IF feedback /\ ~IsForall(prems[1].p) THEN "AttributeError" ELSE "False"

verify_leftforall_with(pr, ord, feedback) ==
    IF { p \in GammaSet(pr.conclusion) : IsForall(p.p) } = {} THEN "False"
    ELSE IF Len(pr.premises) # 1 THEN "False"
    ELSE IF pr.conclusion.delta # PremDelta(pr, 1) THEN "False"
    ELSE
    LET gam == PremGamma(pr, 1)
        cg == GammaSet(pr.conclusion)
        diff == (gam \ cg) \cup (cg \ gam)
    IN
    IF Cardinality(diff) > 2 THEN "False"
    ELSE IF Cardinality(diff) < 2 THEN "IndexError"
    ELSE
    LET prems == SymDiffList(diff, ord)
        eq == IF prems[1] \in cg THEN <<prems[1].p, prems[2].p>> ELSE <<prems[2].p, prems[1].p>>
    IN
    IF ~IsForall(eq[1]) THEN "AttributeError"
    ELSE
    LET x == Variable(eq[1].n)
        r == matchs(<< <<eq[1].a[1], eq[2]>> >>, EmptyRho)
    IN
    IF r.st \notin {"ok", "None"} THEN r.st
    ELSE IF r.st = "None" \/ x \notin DOMAIN r.rho THEN could_not_unify(prems, feedback)
    ELSE IF apply_formula(eq[1].a[1], Put(EmptyRho, x, r.rho[x])) # eq[2] THEN could_not_unify(prems, feedback)
    ELSE "True"   \* verifier.py:177-183: the sub_gamma test only prints

\* verify_leftforall(pf, feedback=False)
verify_leftforall(pr, ord) == verify_leftforall_with(pr, ord, FALSE)

verify_rightforall(pr) ==
    IF ~IsProposition(pr.conclusion.delta) THEN "False"
    ELSE IF ~IsForall(pr.conclusion.delta.p) THEN "False"
    ELSE IF Len(pr.premises) # 1 THEN "False"
    ELSE
    LET delta == PremDelta(pr, 1)
        v == Variable(pr.conclusion.delta.p.n)
        body == pr.conclusion.delta.p.a[1]
        r == matchs(<< <<body, delta.p>> >>, EmptyRho)
    IN
    IF r.st \notin {"ok", "None"} THEN r.st
    ELSE IF r.st = "None" \/ v \notin DOMAIN r.rho THEN "False"
    ELSE IF apply_formula(body, r.rho) # delta.p THEN "False"
    ELSE IF r.rho[v] \in allvars_sequent(pr.conclusion) THEN "False"
    ELSE "True"

verify_weaken(pr) ==
    IF Len(pr.premises) # 1 THEN "False"
    ELSE IF pr.conclusion.delta # PremDelta(pr, 1) THEN "False"
    ELSE Bool(PremGamma(pr, 1) \subseteq GammaSet(pr.conclusion))

verify_cut(pr) ==
    IF Len(pr.premises) # 2 THEN "False"
    ELSE IF pr.conclusion.delta # PremDelta(pr, 2) THEN "False"
    ELSE IF PremGamma(pr, 1) \ GammaSet(pr.conclusion) # {} THEN "False"
    ELSE Bool(PremGamma(pr, 2) \ (GammaSet(pr.conclusion) \cup {PremDelta(pr, 1)}) = {})

verify_aff(pr) ==
    IF Len(pr.premises) # 1 THEN "False"
    ELSE IF ~IsAffirmation(pr.conclusion.delta) THEN "False"
    ELSE IF ~IsProposition(PremDelta(pr, 1)) THEN "False"
    ELSE IF pr.conclusion.delta.p # PremDelta(pr, 1).p THEN "False"
    ELSE Bool(PremGamma(pr, 1) \subseteq GammaSet(pr.conclusion))

verify_saysleft(pr) ==
    IF { p \in GammaSet(pr.conclusion) : IsOp(p.p, "SAYS") } = {} THEN "False"
    ELSE IF Len(pr.premises) # 1 THEN "False"
    ELSE IF ~IsAffirmation(pr.conclusion.delta) THEN "False"
    ELSE IF pr.conclusion.delta # PremDelta(pr, 1) THEN "False"
    ELSE
    LET ag == pr.conclusion.delta.a
        new_assumes == PremGamma(pr, 1) \ GammaSet(pr.conclusion)
        bad_assumes == { p \in new_assumes :
                           Proposition(App("SAYS", <<ag, p.p>>)) \notin GammaSet(pr.conclusion) }
    IN Bool(bad_assumes = {})

verify_saysright(pr) ==
    IF ~IsProposition(pr.conclusion.delta) THEN "False"
    ELSE IF ~IsOp(pr.conclusion.delta.p, "SAYS") THEN "False"
    ELSE IF Len(pr.premises) # 1 THEN "False"
    ELSE IF ~IsAffirmation(PremDelta(pr, 1)) THEN "False"
    ELSE IF pr.conclusion.delta.p.a[1] # PremDelta(pr, 1).a THEN "False"
    ELSE IF pr.conclusion.delta.p.a[2] # PremDelta(pr, 1).p THEN "False"
    ELSE Bool(PremGamma(pr, 1) \subseteq GammaSet(pr.conclusion))

\* formulas with an id attribute
HasId(f) == f.k \in {"var", "agent", "key", "res"}

verify_sign_with(pr, feedback) ==
    IF ~IsProposition(pr.conclusion.delta) THEN "False"
    ELSE IF ~IsOp(pr.conclusion.delta.p, "SAYS") THEN "False"
    ELSE IF Len(pr.premises) # 2 THEN "False"
    ELSE
    LET delta0 == PremDelta(pr, 1)
        delta1 == PremDelta(pr, 2)
        ag == pr.conclusion.delta.p.a[1]
        p == pr.conclusion.delta.p.a[2]
    IN
    IF ~IsProposition(delta0) THEN "False"
    ELSE IF ~IsOp(delta0.p, "ISKEY") THEN "False"
    ELSE IF ~IsProposition(delta1) THEN "False"
    ELSE IF ~IsOp(delta1.p, "SIGN") THEN "False"
    ELSE IF ag # delta0.p.a[1]   \* the message of line 429 reads both ids
    THEN (IF feedback /\ ~(HasId(ag) /\ HasId(delta0.p.a[1])) THEN "AttributeError" ELSE "False")
    ELSE IF p # delta1.p.a[1] THEN "False"
    ELSE IF delta0.p.a[2] # delta1.p.a[2] THEN "False"
    ELSE IF ~(PremGamma(pr, 1) \subseteq GammaSet(pr.conclusion)) THEN "False"
    ELSE Bool(PremGamma(pr, 2) \subseteq GammaSet(pr.conclusion))

\* verify_sign(pf, feedback=False)
verify_sign(pr) == verify_sign_with(pr, FALSE)

verify_cert_rule_with(pr, feedback) ==
    IF ~IsProposition(pr.conclusion.delta) THEN "False"
    ELSE IF ~IsOp(pr.conclusion.delta.p, "ISKEY") THEN "False"
    ELSE IF Len(pr.premises) # 2 THEN "False"
    ELSE
    LET delta0 == PremDelta(pr, 1)
        delta1 == PremDelta(pr, 2)
        ag == pr.conclusion.delta.p.a[1]
        key == pr.conclusion.delta.p.a[2]
    IN
    IF ~IsProposition(delta0) THEN "False"
    ELSE IF ~IsOp(delta0.p, "ISCA") THEN "False"
    ELSE IF ~IsProposition(delta1) THEN "False"
    ELSE IF ~IsOp(delta1.p, "SAYS") THEN "False"
    ELSE IF ~IsOp(delta1.p.a[2], "ISKEY") THEN "False"
    ELSE IF ag # delta1.p.a[2].a[1]   \* the message of line 498 reads ag.id
    THEN (IF feedback /\ ~HasId(ag) THEN "AttributeError" ELSE "False")
    ELSE IF delta0.p.a[1] # delta1.p.a[1] THEN "False"
    ELSE IF key # delta1.p.a[2].a[2] THEN "False"
    ELSE IF ~(PremGamma(pr, 1) \subseteq GammaSet(pr.conclusion)) THEN "False"
    ELSE Bool(PremGamma(pr, 2) \subseteq GammaSet(pr.conclusion))

\* verify_cert(pf, feedback=False)
verify_cert_rule(pr) == verify_cert_rule_with(pr, FALSE)

verify_step_with(pr, ord, feedback) ==
    IF pr.rule \notin calculus THEN "False"
    ELSE
    CASE pr.rule = "id" -> verify_identity(pr)
      [] pr.rule = "botL" -> verify_botl(pr)
      [] pr.rule = "->R" -> verify_impright(pr)
      [] pr.rule \in {"->L", "->Laff"} -> verify_impleft(pr)
      [] pr.rule \in {"@L", "@Laff"} -> verify_leftforall_with(pr, ord, feedback)
      [] pr.rule = "@R" -> verify_rightforall(pr)
      [] pr.rule = "W" -> verify_weaken(pr)
      [] pr.rule \in {"cut", "affcut"} -> verify_cut(pr)
      [] pr.rule = "aff" -> verify_aff(pr)
      [] pr.rule = "saysL" -> verify_saysleft(pr)
      [] pr.rule = "saysR" -> verify_saysright(pr)
      [] pr.rule = "sign" -> verify_sign_with(pr, feedback)
      [] pr.rule = "cert" -> verify_cert_rule_with(pr, feedback)
      [] OTHER -> "False"

\* verify_step(pf, feedback=False)
verify_step(pr, ord) == verify_step_with(pr, ord, FALSE)

(***************************************************************************)
(* verifier.py: verify.  [err, obs]: err is "none" and obs the returned    *)
(* list, or err names the exception that escapes.                          *)
(***************************************************************************)
Returned(obs) == [err |-> "none", obs |-> obs]
Raised(e) == [err |-> e, obs |-> <<>>]

RECURSIVE ConcatResults(_)
ConcatResults(rs) ==
    IF Len(rs) = 0 THEN Returned(<<>>)
    ELSE IF rs[1].err # "none" THEN rs[1]
    ELSE LET rest == ConcatResults(Tail(rs)) IN
         IF rest.err # "none" THEN rest ELSE Returned(rs[1].obs \o rest.obs)

\* Two verifiers that differ from verify in one respect each; the properties
\* of verify below are shown to tell verify apart from them.
\* verify_shallow: a passing node reports its own Sequent premises only
verify_shallow(pr, ord) ==
    IF IsSequent(pr) THEN Returned(<<pr.conclusion>>)
    ELSE
    LET step == verify_step(pr, ord) IN
    IF step = "False" THEN Returned(<<pr.conclusion>>)
    ELSE IF step # "True" THEN Raised(step)
    ELSE LET obs == SelectSeq(pr.premises, IsSequent)
         IN Returned([i \in DOMAIN obs |-> obs[i].conclusion])

\* verify_silent: a failing node below the root reports nothing
RECURSIVE verify_below(_, _)
verify_below(pr, ord) ==
    IF IsSequent(pr) THEN Returned(<<pr.conclusion>>)
    ELSE
    LET step == verify_step(pr, ord) IN
    IF step = "False" THEN Returned(<<>>)
    ELSE IF step # "True" THEN Raised(step)
    ELSE
    LET obs == SelectSeq(pr.premises, IsSequent)
        subs == SelectSeq(pr.premises, IsProof)
        rest == ConcatResults([i \in DOMAIN subs |-> verify_below(subs[i], ord)])
    IN IF rest.err # "none" THEN rest
       ELSE Returned([i \in DOMAIN obs |-> obs[i].conclusion] \o rest.obs)

verify_silent(pr, ord) ==
    IF IsSequent(pr) THEN Returned(<<pr.conclusion>>)
    ELSE
    LET step == verify_step(pr, ord) IN
    IF step = "False" THEN Returned(<<pr.conclusion>>)
    ELSE IF step # "True" THEN Raised(step)
    ELSE
    LET obs == SelectSeq(pr.premises, IsSequent)
        subs == SelectSeq(pr.premises, IsProof)
        rest == ConcatResults([i \in DOMAIN subs |-> verify_below(subs[i], ord)])
    IN IF rest.err # "none" THEN rest
       ELSE Returned([i \in DOMAIN obs |-> obs[i].conclusion] \o rest.obs)

RECURSIVE verify(_, _)
verify(pr, ord) ==
    IF IsSequent(pr) THEN Returned(<<pr.conclusion>>)
    ELSE
    LET step == verify_step(pr, ord) IN
    IF step = "False" THEN Returned(<<pr.conclusion>>)
    ELSE IF step # "True" THEN Raised(step)
    ELSE
    LET obs == SelectSeq(pr.premises, IsSequent)
        subs == SelectSeq(pr.premises, IsProof)
        rest == ConcatResults([i \in DOMAIN subs |-> verify(subs[i], ord)])
    IN IF rest.err # "none" THEN rest
       ELSE Returned([i \in DOMAIN obs |-> obs[i].conclusion] \o rest.obs)

\* verify(pf) as the prover calls it, with feedback left at its default True:
\* a rejected step prints its message, and building the message can fail
RECURSIVE verify_feedback(_, _)
verify_feedback(pr, ord) ==
    IF IsSequent(pr) THEN Returned(<<pr.conclusion>>)
    ELSE
    LET step == verify_step_with(pr, ord, TRUE) IN
    IF step = "False" THEN Returned(<<pr.conclusion>>)
    ELSE IF step # "True" THEN Raised(step)
    ELSE
    LET obs == SelectSeq(pr.premises, IsSequent)
        subs == SelectSeq(pr.premises, IsProof)
        rest == ConcatResults([i \in DOMAIN subs |-> verify_feedback(subs[i], ord)])
    IN IF rest.err # "none" THEN rest
       ELSE Returned([i \in DOMAIN obs |-> obs[i].conclusion] \o rest.obs)

(***************************************************************************)
(* The proofs handed to the verifier.  Every proof is a tree over one of   *)
(* five small vocabularies, one per group of rules; within a vocabulary    *)
(* the sequents are all those with at most MaxGamma assumptions.           *)
(***************************************************************************)
MaxGamma == 2

agA == Agent("#a")
agB == Agent("#b")
agC == Agent("#ca")
resR == Resource("<r>")
keyK == Key("[k]")
fA == App("OPEN", <<agA, resR>>)
fB == App("OPEN", <<agB, resR>>)
fY == App("OPEN", <<Variable("y"), resR>>)
fAll == Forall(Variable("x"), App("OPEN", <<Variable("x"), resR>>))
fImp == App("IMPLIES", <<fA, fB>>)
fFalse == App("FALSE", <<>>)
fSays == App("SAYS", <<agA, fA>>)
fIsKey == App("ISKEY", <<agA, keyK>>)
fSign == App("SIGN", <<fA, keyK>>)
fCa == App("ISCA", <<agC>>)
fSaysKey == App("SAYS", <<agC, fIsKey>>)

Vocabularies ==
    { [J |-> {Proposition(fA), Proposition(fB), Proposition(fImp)},
       D |-> {Proposition(fA), Proposition(fB), Proposition(fImp)},
       R0 |-> {"id", "botL"}, R1 |-> {"->R", "W", "->L"}, R2 |-> {"->L", "->Laff", "cut"},
       C2 |-> {Proposition(fB), Affirmation(agA, fB)}, L2 |-> {Proposition(fA)},
       P2 |-> {Proposition(fB), Affirmation(agA, fB)}],
      [J |-> {Proposition(fA), Proposition(fSays), Proposition(fFalse)},
       D |-> {Proposition(fA), Proposition(fSays), Affirmation(agA, fA)},
       R0 |-> {"id", "botL", "aff"}, R1 |-> {"aff", "saysL", "saysR"}, R2 |-> {"affcut", "cut"},
       C2 |-> {Affirmation(agA, fA)}, L2 |-> {Proposition(fSays), Proposition(fA)},
       P2 |-> {Affirmation(agA, fA), Proposition(fA)}],
      [J |-> {Proposition(fAll), Proposition(fA), Proposition(fY)},
       D |-> {Proposition(fAll), Proposition(fA), Proposition(fY)},
       R0 |-> {"id", "@L"}, R1 |-> {"@L", "@Laff", "@R"}, R2 |-> {"@L", "cut"},
       C2 |-> {Proposition(fA)}, L2 |-> {Proposition(fA)}, P2 |-> {Proposition(fA)}],
      [J |-> {Proposition(fIsKey), Proposition(fSign), Proposition(fFalse)},
       D |-> {Proposition(fIsKey), Proposition(fSign), Proposition(fSays)},
       R0 |-> {"id", "sign"}, R1 |-> {"sign", "W", "modus"}, R2 |-> {"sign"},
       C2 |-> {Proposition(fSays)}, L2 |-> {Proposition(fIsKey), Proposition(fSign)},
       P2 |-> {Proposition(fSign), Proposition(fIsKey)}],
      [J |-> {Proposition(fCa), Proposition(fSaysKey), Proposition(fIsKey)},
       D |-> {Proposition(fCa), Proposition(fSaysKey), Proposition(fIsKey)},
       R0 |-> {"id", "cert"}, R1 |-> {"cert", "cut", "saysR"}, R2 |-> {"cert"},
       C2 |-> {Proposition(fIsKey)}, L2 |-> {Proposition(fCa), Proposition(fSaysKey)},
       P2 |-> {Proposition(fSaysKey), Proposition(fCa)}] }

Gammas(J) == { SetToSeq(S) : S \in { T \in SUBSET J : Cardinality(T) <= MaxGamma } }
Sequents(v) == { Sequent(g, d) : g \in Gammas(v.J), d \in v.D }
\* a premise: an open obligation, or a sub-proof by the rule id
Items(v) == { Leaf(q) : q \in Sequents(v) } \cup { Proof(<<>>, q, "id") : q \in Sequents(v) }
Nodes0(v) == { Proof(<<>>, c, rl) : c \in Sequents(v), rl \in v.R0 }
Nodes1(v) == { Proof(<<i>>, c, rl) : i \in Items(v), c \in Sequents(v), rl \in v.R1 }
\* two premises: the goals of the conclusion (C2), the left premise (L2) and
\* the right premise (P2) are the vocabulary's; the right premise is open
Nodes2(v) ==
    { Proof(<<IF sh = "seq" THEN Leaf(Sequent(lg, ld)) ELSE Proof(<<>>, Sequent(lg, ld), "id"),
              Leaf(Sequent(g, d))>>, Sequent(cg, cd), rl) :
        sh \in {"seq", "id"}, lg \in Gammas(v.J), ld \in v.L2,
        g \in Gammas(v.J), d \in v.P2,
        cg \in Gammas(v.J), cd \in v.C2, rl \in v.R2 }
Nodes(v) == Nodes0(v) \cup Nodes1(v) \cup Nodes2(v)
\* a further level: the node under a weakening step, or as the right premise of a cut
Wrapped(v) == { Proof(<<n>>, n.conclusion, "W") : n \in Nodes1(v) }
              \cup { Proof(<<Leaf(n.conclusion), n>>, n.conclusion, "cut") : n \in Nodes1(v) }
ProofInputs(v) == Nodes(v) \cup Wrapped(v)

\* @L/@Laff steps whose premise assumes all that the conclusion assumes and
\* two judgements more, among them a second quantified formula and an
\* instance of it
fAllY == Forall(Variable("y"), App("OPEN", <<Variable("y"), resR>>))
LeftForallInputs ==
    { Proof(<<Leaf(Sequent(SetToSeq(Range(cg) \cup S), d))>>, Sequent(cg, d), rl) :
        cg \in { <<Proposition(fAll)>>, <<Proposition(fAll), Proposition(fA)>> },
        S \in { T \in SUBSET {Proposition(fAllY), Proposition(fB), Proposition(fY)} : Cardinality(T) = 2 },
        d \in {Proposition(fA), Proposition(fB), Affirmation(agA, fB)},
        rl \in {"@L", "@Laff"} }

\* ->L/->Laff steps whose left premise has the antecedent as an affirmation,
\* as a truth judgement, or another goal
ImpLeftInputs ==
    { Proof(<<IF sh = "seq" THEN Leaf(Sequent(lg, ld)) ELSE Proof(<<>>, Sequent(lg, ld), "id"),
              Leaf(Sequent(g, d))>>, Sequent(cg, d), rl) :
        sh \in {"seq", "id"},
        lg \in { <<Proposition(fImp)>>, <<Proposition(fA)>> },
        ld \in {Proposition(fA), Affirmation(agA, fA), Proposition(fB)},
        g \in { <<Proposition(fImp)>>, <<Proposition(fImp), Proposition(fB)>>,
                <<Proposition(fImp), Proposition(fA), Proposition(fB)>> },
        cg \in { <<Proposition(fImp)>>, <<Proposition(fImp), Proposition(fA)>> },
        d \in {Proposition(fB), Affirmation(agA, fB)},
        rl \in {"->L", "->Laff"} }

NoCert == [public_key |-> "", agent |-> Nil, cred |-> [p |-> Nil, signator |-> Nil, signature |-> [key |-> "", msg |-> ""]]]
NoProof == Leaf(Sequent(<<>>, Proposition(Nil)))
NoRequest == [proof |-> NoProof, signature |-> NoCert.cred, creds |-> <<>>, certs |-> <<>>]
NoOutcome == [kind |-> "unset", cred |-> NoCert.cred, err |-> "none"]
NoResult == [err |-> "unset", obs |-> <<>>]
NoArg == [f |-> "none"]
NoRet == [raised |-> "unset"]

InitVerify ==
    /\ pc = "verify"
    /\ \/ \E v \in Vocabularies : pf \in ProofInputs(v)
       \/ pf \in LeftForallInputs \cup ImpLeftInputs
    /\ hashOrder = 0
    /\ result = NoResult
    /\ cert = NoCert /\ chain = <<>> /\ roots = {} /\ certResult = "unset"
    /\ req = NoRequest /\ gamma = <<>> /\ reqResult = NoOutcome
    /\ arg = NoArg /\ ret = NoRet

\* verify(pf, feedback=False), under either iteration order of the set of line 158
RECURSIVE HasLeftForall(_)
HasLeftForall(pr) ==
    /\ IsProof(pr)
    /\ \/ pr.rule \in {"@L", "@Laff"}
       \/ \E i \in DOMAIN pr.premises : HasLeftForall(pr.premises[i])

\* the set of line 158 is built by verify_leftforall alone
Orders(pr) == IF HasLeftForall(pr) THEN {0, 1} ELSE {0}

Verify ==
    /\ pc = "verify"
    /\ \E ord \in Orders(pf) :
         /\ hashOrder' = ord
         /\ result' = verify(pf, ord)
    /\ pc' = "done"
    /\ UNCHANGED <<pf, cert, chain, roots, certResult, req, gamma, reqResult, arg, ret>>

NextVerify == Verify
SpecVerify == InitVerify /\ [][NextVerify]_vars

(***************************************************************************)
(* util.py: fmla_stringify, the canonical text of a formula.               *)
(***************************************************************************)
op_dict == [NOT |-> "!", AND |-> "&", OR |-> "|", IMPLIES |-> "->", SAYS |-> "says", ISCA |-> "ca"]

RECURSIVE JoinWith(_, _)
JoinWith(strs, sep) ==
    IF Len(strs) = 0 THEN ""
    ELSE IF Len(strs) = 1 THEN strs[1]
    ELSE strs[1] \o sep \o JoinWith(Tail(strs), sep)

RECURSIVE fmla_stringify(_)
fmla_stringify(p) ==
    CASE p.k \in {"var", "res", "agent", "key"} -> p.n
      [] p.k = "app" ->
            IF Len(p.a) = 0 THEN (IF p.n = "TRUE" THEN "true" ELSE "false")
            ELSE IF Len(p.a) = 1 THEN op_dict[p.n] \o "(" \o fmla_stringify(p.a[1]) \o ")"
            ELSE
            CASE p.n = "SIGN" ->
                    "sign((" \o fmla_stringify(p.a[1]) \o "), " \o fmla_stringify(p.a[2]) \o ")"
              [] p.n = "ISKEY" ->
                    "iskey(" \o fmla_stringify(p.a[1]) \o ", " \o fmla_stringify(p.a[2]) \o ")"
              [] p.n = "OPEN" ->
                    "open(" \o fmla_stringify(p.a[1]) \o ", " \o fmla_stringify(p.a[2]) \o ")"
              [] p.n = "OTHER" ->
                    fmla_stringify(p.a[1]) \o "(" \o fmla_stringify(p.a[2]) \o ")"
              [] OTHER ->
                    "(" \o JoinWith([i \in DOMAIN p.a |-> fmla_stringify(p.a[i])],
                                    " " \o op_dict[p.n] \o " ") \o ")"
      [] p.k = "forall" -> "(@" \o p.n \o " . (" \o fmla_stringify(p.a[1]) \o "))"

(***************************************************************************)
(* crypto.py: keys and signatures.  A key pair is named by one string; a   *)
(* signature records the key that made it and the text it was made over,   *)
(* and Ed25519 verification accepts it under that key and text only.       *)
(***************************************************************************)
\* crypto.py:461-464: "[" hex digest of the key "]"
fingerprint(key) == "[" \o key \o "]"

\* key.sign(stringify(p).encode('utf-8')).hex()
SignText(key, text) == [key |-> key, msg |-> text]

\* key.verify(signature, text): InvalidSignature unless made by key over text
KeyVerify(key, signature, text) == signature.key = key /\ signature.msg = text

Credential(p, signator, signature) == [p |-> p, signator |-> signator, signature |-> signature]
Certificate(public_key, agent, cred) == [public_key |-> public_key, agent |-> agent, cred |-> cred]

\* Credential.verify_signature(pk)
verify_signature(cred, pk) == KeyVerify(pk, cred.signature, fmla_stringify(cred.p))

\* the private key of an agent as load_private_key finds it on the signing host
PrivateKeys == [a \in {"#root", "#ca", "#a", "#m"} |->
                  CASE a = "#root" -> "a0" [] a = "#ca" -> "c0" [] a = "#a" -> "a1" [] a = "#m" -> "e0"]

\* Credential.from_formula(p, agent) for a formula that is no sign formula
from_formula(p, agent) ==
    Credential(p, agent, SignText(PrivateKeys[agent.n], fmla_stringify(p)))

\* Certificate.make_for_key
make_for_key(public_key, agent, signator) ==
    Certificate(public_key, agent,
                from_formula(App("ISKEY", <<agent, Key(fingerprint(public_key))>>), signator))

(***************************************************************************)
(* parser.py: parse, on the texts the request path builds.  A text parses  *)
(* to the formula of ParseUniverse that it is a text of: the canonical     *)
(* text, or for sign(P, k) also the text without the inner parentheses     *)
(* that Credential.sign_formula writes.                                    *)
(***************************************************************************)
agRoot == Agent("#root")
agM == Agent("#m")
AllAgents == {agRoot, agC, agA, agM, agB}
AllKeys == { Key(fingerprint(k)) : k \in {"a0", "c0", "a1", "e0", "e1"} }
Atoms == { App("ISCA", <<a>>) : a \in AllAgents }
         \cup { App("ISKEY", <<a, k>>) : a \in AllAgents, k \in AllKeys }
         \cup { App("OPEN", <<a, resR>>) : a \in AllAgents }
ParseUniverse == Atoms \cup { App("SIGN", <<p, k>>) : p \in Atoms, k \in AllKeys }

Texts(f) ==
    {fmla_stringify(f)} \cup
    (IF IsOp(f, "SIGN")
     THEN {"sign(" \o fmla_stringify(f.a[1]) \o ", " \o fmla_stringify(f.a[2]) \o ")"}
     ELSE {})

ParseTable ==
    LET texts == UNION { Texts(f) : f \in ParseUniverse } IN
    [s \in texts |-> CHOOSE f \in ParseUniverse : s \in Texts(f)]

\* Nil stands for the ParseException of a text outside the table
parse(s) == IF s \in DOMAIN ParseTable THEN ParseTable[s] ELSE Nil

\* Credential.sign_formula(cert)
sign_formula(cred, crt) ==
    parse("sign(" \o fmla_stringify(cred.p) \o ", " \o fingerprint(crt.public_key) \o ")")

\* util.py: get_cas
get_cas(seq) == { jd.p.a[1] : jd \in { g \in GammaSet(seq) :
                     IsProposition(g) /\ IsOp(g.p, "ISCA") /\ Len(g.p.a) = 1 } }

(***************************************************************************)
(* crypto.py: verify_cert.  "True", "False", or the name of the exception  *)
(* that escapes.  depth counts the frames left before the interpreter      *)
(* raises RecursionError.                                                  *)
(***************************************************************************)
RecursionLimit == 4

RECURSIVE verify_cert(_, _, _, _)
verify_cert(crt, chn, rts, depth) ==
    LET p == crt.cred.p IN
    IF ~(IsOp(p, "ISKEY") /\ Len(p.a) = 2 /\ p.a[1] = crt.agent) THEN "False"
    ELSE IF fingerprint(crt.public_key) # p.a[2].n THEN "False"
    \* line 498 reads chain[cert.cred.signator] before line 506 tests membership
    ELSE IF crt.cred.signator \notin DOMAIN chn THEN "KeyError"
    ELSE IF ~KeyVerify(chn[crt.cred.signator].public_key, crt.cred.signature, fmla_stringify(p))
         THEN "False"
    ELSE IF crt.agent = crt.cred.signator
         THEN (IF Cardinality(rts) > 0 THEN Bool(crt \in rts) ELSE "True")
    ELSE IF depth = 0 THEN "RecursionError"
    ELSE verify_cert(chn[crt.cred.signator], chn, rts, depth - 1)

(***************************************************************************)
(* crypto.py: rebase_proof.  The list built from a set at line 548 is      *)
(* taken in the order SetToSeq gives; the verifier reads it as a set.      *)
(***************************************************************************)
\* rebase_proof with the union of line 548 read as a symmetric difference
rebase_sequent_symdiff(seq, gam) ==
    LET kept == { p \in GammaSet(seq) : IsOp(p.p, "SIGN") => p \in Range(gam) }
    IN Sequent(SetToSeq((kept \ Range(gam)) \cup (Range(gam) \ kept)), seq.delta)

\* rebase_proof on a Sequent without the match of lines 543-547
rebase_sequent_keepsigns(seq, gam) ==
    Sequent(SetToSeq(GammaSet(seq) \cup Range(gam)), seq.delta)

rebase_sequent(seq, gam) ==
    LET kept == { p \in GammaSet(seq) : IsOp(p.p, "SIGN") => p \in Range(gam) }
    IN Sequent(SetToSeq(kept \cup Range(gam)), seq.delta)

RECURSIVE rebase_proof(_, _)
rebase_proof(pr, gam) ==
    IF IsProof(pr)
    THEN Proof([i \in DOMAIN pr.premises |-> rebase_proof(pr.premises[i], gam)],
               rebase_sequent(pr.conclusion, gam), pr.rule)
    ELSE Leaf(rebase_sequent(pr.conclusion, gam))

(***************************************************************************)
(* crypto.py: AccessRequest.make_for_proof and verify_request.             *)
(***************************************************************************)
\* a call that raised the exception e instead of returning
Exception(e) == [raised |-> e]

AccessRequest(proof, signature, creds, certs) ==
    [proof |-> proof, signature |-> signature, creds |-> creds, certs |-> certs]

IsAccessGoal(p) ==
    /\ IsOp(p, "SAYS") /\ Len(p.a) = 2
    /\ IsOp(p.a[2], "OPEN") /\ Len(p.a[2].a) = 2

\* make_for_proof without the match statement of lines 362-368
make_for_proof_unchecked(pr, ag, creds, certs) ==
    IF ag.n \notin DOMAIN PrivateKeys THEN Exception("ValueError")
    ELSE AccessRequest(rebase_proof(pr, <<>>), from_formula(pr.conclusion.delta.p, ag), creds, certs)

\* ValueError for a goal that is not `A says open(B, R)`, and from
\* Credential.from_formula for an agent without a private key
make_for_proof(pr, ag, creds, certs) ==
    IF ~IsAccessGoal(pr.conclusion.delta.p) THEN Exception("ValueError")
    ELSE IF ag.n \notin DOMAIN PrivateKeys THEN Exception("ValueError")
    ELSE AccessRequest(rebase_proof(pr, <<>>), from_formula(pr.conclusion.delta.p, ag), creds, certs)

\* {cert.agent: cert for cert in req.certs}: a later certificate of an agent
\* replaces an earlier one
cert_chain(certs) ==
    [a \in { certs[i].agent : i \in DOMAIN certs } |->
        certs[CHOOSE i \in DOMAIN certs :
                 /\ certs[i].agent = a
                 /\ \A k \in DOMAIN certs : certs[k].agent = a => k <= i]]

\* the first element of outs that is not "True", or "True"
RECURSIVE FirstFailure(_)
FirstFailure(outs) ==
    IF Len(outs) = 0 THEN "True"
    ELSE IF outs[1] # "True" THEN outs[1]
    ELSE FirstFailure(Tail(outs))

\* the gamma of lines 581-588; KeyError when a declared CA has no certificate
reconstruct_gamma(rq, chn) ==
    LET cas == SetToSeq(get_cas(rq.proof.conclusion)) IN
    [i \in DOMAIN cas |-> Proposition(parse("ca(" \o cas[i].n \o ")"))]
    \o [i \in DOMAIN cas |->
          Proposition(parse("iskey(" \o cas[i].n \o ", "
                            \o fingerprint(chn[cas[i]].public_key) \o ")"))]
    \o [i \in DOMAIN rq.certs |->
          Proposition(sign_formula(rq.certs[i].cred, chn[rq.certs[i].cred.signator]))]
    \o [i \in DOMAIN rq.creds |->
          Proposition(sign_formula(rq.creds[i], chn[rq.creds[i].signator]))]

Granted(cred) == [kind |-> "credential", cred |-> cred, err |-> "none"]
Rejected == [kind |-> "None", cred |-> Credential(Nil, Nil, SignText("", "")), err |-> "none"]
Failed(e) == [kind |-> "raised", cred |-> Credential(Nil, Nil, SignText("", "")), err |-> e]

\* lines 571-581: the two loops and the lookup of the declared CAs; "True",
\* "False" (return None) or the exception that escapes
check_evidence(rq, rts) ==
    LET chn == cert_chain(rq.certs)
        certs_out == FirstFailure([i \in DOMAIN rq.certs |->
                        verify_cert(rq.certs[i], chn, rts, RecursionLimit)])
        creds_out == FirstFailure([i \in DOMAIN rq.creds |->
                        IF rq.creds[i].signator \notin DOMAIN chn THEN "KeyError"
                        ELSE Bool(verify_signature(rq.creds[i], chn[rq.creds[i].signator].public_key))])
    IN
    IF certs_out # "True" THEN certs_out
    ELSE IF creds_out # "True" THEN creds_out
    ELSE IF ~(get_cas(rq.proof.conclusion) \subseteq DOMAIN chn) THEN "KeyError"
    ELSE "True"

\* lines 591-599: the proof handed to the verifier
rebased_request_proof(rq) ==
    LET gam == reconstruct_gamma(rq, cert_chain(rq.certs)) IN
    rebase_proof(Proof(rq.proof.premises, Sequent(gam, rq.proof.conclusion.delta), rq.proof.rule), gam)

verify_request(rq, rts, ord) ==
    LET ev == check_evidence(rq, rts) IN
    IF ev = "False" THEN Rejected
    ELSE IF ev # "True" THEN Failed(ev)
    ELSE
    LET res == verify(rebased_request_proof(rq), ord) IN
    IF res.err # "none" THEN Failed(res.err)
    ELSE IF Len(res.obs) > 0 THEN Rejected
    ELSE Granted(from_formula(rq.signature.p.a[2], agRoot))


(***************************************************************************)
(* Certificates, credentials and requests handed to verify_cert and        *)
(* verify_request.                                                         *)
(***************************************************************************)
PublicKey(a) == PrivateKeys[a.n]
KeyOf(a) == Key(fingerprint(PublicKey(a)))
ForgedKey == "e1"

iskey(a, k) == App("ISKEY", <<a, k>>)
open(a) == App("OPEN", <<a, resR>>)
says(a, p) == App("SAYS", <<a, p>>)
sign(p, k) == App("SIGN", <<p, k>>)
ca(a) == App("ISCA", <<a>>)

\* the certificate of agent a issued by b: well formed, with a signature made
\* by another key, or over a fingerprint that is not the public key's
GoodCert(a, b) == make_for_key(PublicKey(a), a, b)
BadSigCert(a, b) ==
    Certificate(PublicKey(a), a,
                Credential(iskey(a, KeyOf(a)), b, SignText(ForgedKey, fmla_stringify(iskey(a, KeyOf(a))))))
BadPrintCert(a, b) == Certificate(ForgedKey, a, from_formula(iskey(a, KeyOf(a)), b))

ChainAgents == {agC, agA, agM}
CertVariants(a) ==
    { GoodCert(a, b) : b \in ChainAgents } \cup { BadSigCert(a, b) : b \in ChainAgents }
    \cup { BadPrintCert(a, b) : b \in ChainAgents }

\* a chain map holds the certificates of the agents that have one
Restrict(f) == [a \in { b \in DOMAIN f : f[b] # NoCert } |-> f[a]]

RootSets == { {}, {GoodCert(agC, agC)} }

InitCert ==
    /\ pc = "verify_cert"
    /\ \E ca0 \in {NoCert} \cup CertVariants(agC), a0 \in {NoCert} \cup CertVariants(agA),
          m0 \in {NoCert} \cup CertVariants(agM) :
         chain = Restrict([a \in ChainAgents |->
                     IF a = agC THEN ca0 ELSE IF a = agA THEN a0 ELSE m0])
    /\ cert \in { chain[a] : a \in DOMAIN chain } \cup {GoodCert(agA, agC)}
    /\ roots \in RootSets
    /\ certResult = "unset"
    /\ pf = NoProof /\ hashOrder = 0 /\ result = NoResult
    /\ req = NoRequest /\ gamma = <<>> /\ reqResult = NoOutcome
    /\ arg = NoArg /\ ret = NoRet

VerifyCert ==
    /\ pc = "verify_cert"
    /\ certResult' = verify_cert(cert, chain, roots, RecursionLimit)
    /\ pc' = "done"
    /\ UNCHANGED <<pf, hashOrder, result, cert, chain, roots, req, gamma, reqResult, arg, ret>>

NextCert == VerifyCert
SpecCert == InitCert /\ [][NextCert]_vars

(***************************************************************************)
(* Access requests.  The client's proof of `A says open(B, <r>)` from the  *)
(* declaration of a certificate authority, its key, the certificate it     *)
(* issued to A and a credential signed by A.                               *)
(***************************************************************************)
ById(g, f) == Proof(<<>>, Sequent(g, Proposition(f)), "id")

AccessProof(g, caAg, caKey, ag, agKey, stmt) ==
    Proof(<< Proof(<< ById(g, ca(caAg)),
                      Proof(<< ById(g, iskey(caAg, caKey)),
                               ById(g, sign(iskey(ag, agKey), caKey)) >>,
                            Sequent(g, Proposition(says(caAg, iskey(ag, agKey)))), "sign") >>,
                   Sequent(g, Proposition(iskey(ag, agKey))), "cert"),
             ById(g, sign(stmt, agKey)) >>,
          Sequent(g, Proposition(says(ag, stmt))), "sign")

\* the context of the honest client #a and its proof that #root lets it open <r>
ClientGamma ==
    << Proposition(ca(agC)), Proposition(iskey(agC, KeyOf(agC))),
       Proposition(sign(iskey(agC, KeyOf(agC)), KeyOf(agC))),
       Proposition(sign(iskey(agRoot, KeyOf(agRoot)), KeyOf(agC))),
       Proposition(sign(open(agA), KeyOf(agRoot))) >>
ClientProof == AccessProof(ClientGamma, agC, KeyOf(agC), agRoot, KeyOf(agRoot), open(agA))
ClientRequest ==
    make_for_proof(ClientProof, agA, <<from_formula(open(agA), agRoot)>>,
                   <<GoodCert(agC, agC), GoodCert(agRoot, agC)>>)

\* the same proof with its last premise left open, and with a rule that does not apply
OpenProof ==
    [ClientRequest.proof EXCEPT !.premises[2] = Leaf(ClientRequest.proof.premises[2].conclusion)]
IllegalProof == [ClientRequest.proof EXCEPT !.rule = "cut"]

\* #m declares itself a certificate authority, certifies a key of its own
\* choice as the key of #root and signs `open(#m, <r>)` with it
ForgedRootCert == make_for_key(ForgedKey, agRoot, agM)
ForgedCred == Credential(open(agM), agRoot, SignText(ForgedKey, fmla_stringify(open(agM))))
SelfDeclaredGamma == << Proposition(ca(agM)), Proposition(iskey(agM, KeyOf(agM))) >>
SelfDeclaredProof ==
    AccessProof(SelfDeclaredGamma, agM, KeyOf(agM), agRoot, Key(fingerprint(ForgedKey)), open(agM))

\* the client's proof under the declaration of a second authority that sent no certificate
UncertifiedCaProof ==
    rebase_proof(AccessProof(<<Proposition(ca(agC)), Proposition(iskey(agC, KeyOf(agC))),
                               Proposition(ca(agB))>>,
                             agC, KeyOf(agC), agRoot, KeyOf(agRoot), open(agA)), <<>>)

RequestProofs == {ClientRequest.proof, OpenProof, IllegalProof, SelfDeclaredProof, UncertifiedCaProof}
RequestSignatures ==
    { from_formula(says(agRoot, open(agA)), agA), from_formula(says(agRoot, open(agM)), agM),
      from_formula(says(agA, open(agM)), agM) }
RequestCreds ==
    { <<>>, ClientRequest.creds,
      <<Credential(open(agM), agRoot, SignText(PublicKey(agRoot), fmla_stringify(open(agA))))>>,
      <<ForgedCred>>,
      ClientRequest.creds \o <<from_formula(open(agM), agA)>> }
RequestCerts ==
    { <<>>, ClientRequest.certs, <<GoodCert(agRoot, agC)>>,
      <<GoodCert(agC, agC), BadSigCert(agRoot, agC)>>,
      <<GoodCert(agC, agC), GoodCert(agM, agC), ForgedRootCert>>,
      <<GoodCert(agM, agM), ForgedRootCert>>,
      <<GoodCert(agC, agC), GoodCert(agRoot, agC), GoodCert(agA, agM), GoodCert(agM, agA)>> }

Requests ==
    { AccessRequest(p, s, cr, ce) :
        p \in RequestProofs, s \in RequestSignatures, cr \in RequestCreds, ce \in RequestCerts }

Init ==
    /\ pc = "verify_request"
    /\ req \in Requests
    /\ roots \in RootSets
    /\ reqResult = NoOutcome
    /\ gamma = <<>> /\ chain = <<>>
    /\ pf = NoProof /\ hashOrder = 0 /\ result = NoResult
    /\ cert = NoCert /\ certResult = "unset"
    /\ arg = NoArg /\ ret = NoRet

\* verify_request(req, roots); chain, gamma, pf and result record its locals
\* cert_chain, gamma, pf and the list verify returns
VerifyRequest ==
    /\ pc = "verify_request"
    /\ chain' = cert_chain(req.certs)
    /\ IF check_evidence(req, roots) = "True"
       THEN /\ gamma' = reconstruct_gamma(req, cert_chain(req.certs))
            /\ pf' = rebased_request_proof(req)
            /\ \E ord \in Orders(rebased_request_proof(req)) :
                 /\ hashOrder' = ord
                 /\ result' = verify(rebased_request_proof(req), ord)
                 /\ reqResult' = verify_request(req, roots, ord)
       ELSE /\ reqResult' = verify_request(req, roots, 0)
            /\ UNCHANGED <<gamma, pf, hashOrder, result>>
    /\ pc' = "done"
    /\ UNCHANGED <<req, roots, cert, certResult, arg, ret>>

Next == VerifyRequest
Spec == Init /\ [][Next]_vars

(***************************************************************************)
(* rebase_proof and AccessRequest.make_for_proof as library calls: the     *)
(* proofs are closed derivations of each shape the request path meets      *)
(* (sign/cert, @L, @R, botL, id), one with an open premise and one with a  *)
(* goal that is no access goal; the target contexts are the subsets of a   *)
(* pool of assumptions, and the client's own context.                      *)
(***************************************************************************)
ForallLeftProof ==
    Proof(<<ById(<<Proposition(fA)>>, fA)>>, Sequent(<<Proposition(fAll)>>, Proposition(fA)), "@L")
ForallRightProof ==
    Proof(<<Proof(<<>>, Sequent(<<Proposition(fFalse)>>, Proposition(fY)), "botL")>>,
          Sequent(<<Proposition(fFalse)>>, Proposition(fAll)), "@R")
SignProof ==
    Proof(<<ById(<<Proposition(fIsKey), Proposition(fSign)>>, fIsKey),
            ById(<<Proposition(fIsKey), Proposition(fSign)>>, fSign)>>,
          Sequent(<<Proposition(fIsKey), Proposition(fSign)>>, Proposition(fSays)), "sign")
OpenSignProof ==
    Proof(<<Leaf(Sequent(<<Proposition(fIsKey), Proposition(fSign)>>, Proposition(fSays)))>>,
          Sequent(<<Proposition(fIsKey), Proposition(fSign), Proposition(fA)>>, Proposition(fSays)), "W")
RebaseProofs ==
    { ClientProof, SignProof, OpenSignProof, ForallLeftProof, ForallRightProof,
      ById(<<Proposition(fA)>>, fA), ById(<<Proposition(fSays)>>, fSays), ById(<<>>, fSays) }
RebasePool ==
    { Proposition(fA), Proposition(fY), Proposition(fAll), Proposition(fFalse),
      Proposition(fIsKey), Proposition(fSign) }
RebaseGammas ==
    { SetToSeq(S) : S \in SUBSET RebasePool } \cup { ClientGamma, ClientGamma \o <<Proposition(fY)>> }
RebaseAgents == {agA, agM, agB}

InitRebase ==
    /\ pc = "rebase"
    /\ arg \in [f : {"rebase_proof"}, pf : RebaseProofs, gamma : RebaseGammas, ag : RebaseAgents]
    /\ ret = NoRet
    /\ pf = NoProof /\ hashOrder = 0 /\ result = NoResult
    /\ cert = NoCert /\ chain = <<>> /\ roots = {} /\ certResult = "unset"
    /\ req = NoRequest /\ gamma = <<>> /\ reqResult = NoOutcome

\* rebase_proof(pf, gamma)
Rebase ==
    /\ pc = "rebase"
    /\ ret' = rebase_proof(arg.pf, arg.gamma)
    /\ pc' = "rebased"
    /\ UNCHANGED <<pf, hashOrder, result, cert, chain, roots, certResult, req, gamma, reqResult, arg>>

\* rebase_proof applied to its own result, with the same gamma
RebaseAgain ==
    /\ pc = "rebased"
    /\ ret' = rebase_proof(ret, arg.gamma)
    /\ pc' = "rebased twice"
    /\ UNCHANGED <<pf, hashOrder, result, cert, chain, roots, certResult, req, gamma, reqResult, arg>>

\* verify(rebase_proof(pf, gamma))
VerifyRebased ==
    /\ pc = "rebased"
    /\ pf' = ret
    /\ \E ord \in Orders(ret) :
         /\ hashOrder' = ord
         /\ result' = verify(ret, ord)
    /\ pc' = "verified"
    /\ UNCHANGED <<cert, chain, roots, certResult, req, gamma, reqResult, arg, ret>>

\* AccessRequest.make_for_proof(pf, ag, creds, certs)
MakeForProof ==
    /\ pc = "rebase"
    /\ ret' = make_for_proof(arg.pf, arg.ag, <<>>, <<>>)
    /\ pc' = "made"
    /\ UNCHANGED <<pf, hashOrder, result, cert, chain, roots, certResult, req, gamma, reqResult, arg>>

NextRebase == Rebase \/ RebaseAgain \/ VerifyRebased \/ MakeForProof
SpecRebase == InitRebase /\ [][NextRebase]_vars

(***************************************************************************)
(* logic.py as a library: matchs and apply_formula.  The patterns are the  *)
(* shapes the rules of proofrules.py are written in (variables, holes      *)
(* P(x), quantifiers, connectives); the substitutions are all maps from a  *)
(* set of variables to the values of SubstValues.                          *)
(***************************************************************************)
implies(p, q) == App("IMPLIES", <<p, q>>)
hole(p, x) == App("OTHER", <<p, x>>)
vX == Variable("x")
vP == Variable("P")

MatchPatterns ==
    { vX, open(vX), fAll, Forall(vX, fY), Forall(Variable("z"), open(Variable("z"))),
      implies(vP, Variable("Q")), implies(vX, vX), says(Variable("A"), vP),
      hole(vP, vX), implies(hole(vP, vX), hole(vP, Variable("y"))), fA }
MatchConcretes ==
    { fA, fB, fY, agA, fAll, Forall(Variable("z"), open(Variable("z"))), Forall(vX, fA),
      Forall(vX, fImp), fImp, implies(fA, fA), implies(fAll, fA), fSays }

ApplyFormulas ==
    { vX, open(vX), fY, fA, fAll, Forall(vX, fY), Forall(Variable("y"), open(vX)),
      implies(open(vX), fY), says(vX, fY), hole(vP, vX),
      Forall(vX, Forall(Variable("y"), implies(open(vX), fY))) }
SubstValues == { vX, Variable("y"), agA, agB, hole(vP, agA) }
Substitutions == UNION { [D -> SubstValues] : D \in SUBSET {vX, Variable("y")} }

\* the conclusions of rules of proofrules.py, as parse builds them, the
\* assumptions of the conclusion and of the premise of @L side by side, and
\* a template without variables
vQ == Variable("Q")
vR == Variable("R")
vA == Variable("A")
TemplateSequents ==
    { Sequent(<<Proposition(vP)>>, Proposition(vP)),
      Sequent(<<Proposition(fFalse)>>, Proposition(vP)),
      Sequent(<<Proposition(implies(vP, vQ))>>, Proposition(vR)),
      Sequent(<<Proposition(vP), Proposition(vQ)>>, Proposition(vR)),
      Sequent(<<Proposition(says(vA, vP))>>, Affirmation(vA, vQ)),
      Sequent(<<Proposition(Forall(vX, hole(vP, vX)))>>, Proposition(vQ)),
      Sequent(<<Proposition(Forall(vX, hole(vP, vX))), Proposition(hole(vP, Variable("y")))>>,
              Proposition(vQ)),
      Sequent(<<>>, Proposition(vQ)),
      Sequent(<<Proposition(fA), Proposition(fImp)>>, Proposition(fB)) }
\* the sequents to match: lists of at most MaxAssume distinct assumptions, in every order
MaxAssume == 3
AssumePool ==
    { Proposition(fA), Proposition(fB), Proposition(fImp), Proposition(fSays),
      Proposition(fAll), Proposition(fFalse) }
Injective(g) == \A i, j \in DOMAIN g : g[i] = g[j] => i = j
AssumeLists == UNION { { g \in [1..n -> AssumePool] : Injective(g) } : n \in 0..MaxAssume }
ConcreteSequents == { Sequent(g, d) : g \in AssumeLists, d \in {Proposition(fB), Affirmation(agA, fA)} }
StartSubstitutions == { EmptyRho, Put(EmptyRho, vP, fA), Put(EmptyRho, vX, agA) }

InitLogic ==
    /\ \/ /\ pc = "matchs_sequent"
          /\ arg \in [f : {"matchs_sequent"}, seq1 : TemplateSequents, seq2 : ConcreteSequents,
                      rho : StartSubstitutions]
       \/ /\ pc = "matchs"
          /\ arg \in [f : {"matchs"}, t : MatchPatterns, o : MatchConcretes]
       \/ /\ pc = "matchs from"
          /\ arg \in [f : {"matchs"}, t : MatchPatterns, o : MatchConcretes,
                      rho : StartSubstitutions \ {EmptyRho}]
       \/ /\ pc = "apply_formula"
          /\ arg \in [f : {"apply_formula"}, p : ApplyFormulas, rho : Substitutions]
    /\ ret = NoRet
    /\ pf = NoProof /\ hashOrder = 0 /\ result = NoResult
    /\ cert = NoCert /\ chain = <<>> /\ roots = {} /\ certResult = "unset"
    /\ req = NoRequest /\ gamma = <<>> /\ reqResult = NoOutcome

\* matchs([(t, o)], {})
Match ==
    /\ pc = "matchs"
    /\ ret' = matchs(<< <<arg.t, arg.o>> >>, EmptyRho)
    /\ pc' = "matched"
    /\ UNCHANGED <<pf, hashOrder, result, cert, chain, roots, certResult, req, gamma, reqResult, arg>>

\* matchs([(t, o)], rho) from a substitution that binds a variable already
MatchFrom ==
    /\ pc = "matchs from"
    /\ ret' = matchs(<< <<arg.t, arg.o>> >>, arg.rho)
    /\ pc' = "matched from"
    /\ UNCHANGED <<pf, hashOrder, result, cert, chain, roots, certResult, req, gamma, reqResult, arg>>

\* apply_formula(p, rho)
Apply ==
    /\ pc = "apply_formula"
    /\ ret' = apply_formula(arg.p, arg.rho)
    /\ pc' = "applied"
    /\ UNCHANGED <<pf, hashOrder, result, cert, chain, roots, certResult, req, gamma, reqResult, arg>>

\* apply_formula applied to its own result, with the same rho
ApplyAgain ==
    /\ pc = "applied"
    /\ ret' = apply_formula(ret, arg.rho)
    /\ pc' = "applied twice"
    /\ UNCHANGED <<pf, hashOrder, result, cert, chain, roots, certResult, req, gamma, reqResult, arg>>

\* matchs_sequent(seq1, seq2, rho), run to exhaustion
MatchSequent ==
    /\ pc = "matchs_sequent"
    /\ ret' = matchs_sequent(arg.seq1, arg.seq2, arg.rho)
    /\ pc' = "sequent matched"
    /\ UNCHANGED <<pf, hashOrder, result, cert, chain, roots, certResult, req, gamma, reqResult, arg>>

NextLogic == Match \/ MatchFrom \/ Apply \/ ApplyAgain \/ MatchSequent
SpecLogic == InitLogic /\ [][NextLogic]_vars

(***************************************************************************)
(* prover.py: RuleTactic, ThenTactic (pass_on=True), chain, get_one_proof  *)
(* and prove.  A tactic returns a Python set of proofs, and the loops of   *)
(* ThenTactic.apply and get_one_proof iterate over such a set in hash      *)
(* order, returning at the first closed proof they meet: the model gives   *)
(* the set of the values a call can return, one per iteration order.  A    *)
(* value is [raised, pfs]; raised is "none" or the name of the exception.  *)
(* The list(set(...)) of a premise's assumptions (line 200) is taken in    *)
(* the order SetToSeq gives; the verifier reads it as a set.               *)
(***************************************************************************)
Rule(premises, conclusion, name) == [premises |-> premises, conclusion |-> conclusion, name |-> name]
identityRule == Rule(<<>>, Sequent(<<Proposition(vP)>>, Proposition(vP)), "id")
falseLeftRule == Rule(<<>>, Sequent(<<Proposition(fFalse)>>, Proposition(vP)), "botL")
impRightRule ==
    Rule(<< Sequent(<<Proposition(vP)>>, Proposition(vQ)) >>,
         Sequent(<<>>, Proposition(implies(vP, vQ))), "->R")
impLeftRule ==
    Rule(<< Sequent(<<>>, Proposition(vP)), Sequent(<<Proposition(vQ)>>, Proposition(vR)) >>,
         Sequent(<<Proposition(implies(vP, vQ))>>, Proposition(vR)), "->L")
impLeftAffRule ==
    Rule(<< Sequent(<<>>, Proposition(vP)), Sequent(<<Proposition(vQ)>>, Affirmation(vA, vR)) >>,
         Sequent(<<Proposition(implies(vP, vQ))>>, Affirmation(vA, vR)), "->Laff")
forallLeftAffRule ==
    Rule(<< Sequent(<<Proposition(hole(vP, Variable("e")))>>, Affirmation(vA, vQ)) >>,
         Sequent(<<Proposition(Forall(vX, hole(vP, vX)))>>, Affirmation(vA, vQ)), "@Laff")
weakenRule ==
    Rule(<< Sequent(<<Proposition(vQ)>>, Proposition(vR)) >>,
         Sequent(<<Proposition(vP), Proposition(vQ)>>, Proposition(vR)), "W")
cutRule ==
    Rule(<< Sequent(<<>>, Proposition(vP)), Sequent(<<Proposition(vP)>>, Proposition(vQ)) >>,
         Sequent(<<>>, Proposition(vQ)), "cut")
affCutRule ==
    Rule(<< Sequent(<<>>, Proposition(vP)), Sequent(<<Proposition(vP)>>, Affirmation(vA, vQ)) >>,
         Sequent(<<>>, Affirmation(vA, vQ)), "affcut")
affRule == Rule(<< Sequent(<<>>, Proposition(vP)) >>, Sequent(<<>>, Affirmation(vA, vP)), "aff")
saysLeftRule ==
    Rule(<< Sequent(<<Proposition(vP)>>, Affirmation(vA, vQ)) >>,
         Sequent(<<Proposition(says(vA, vP))>>, Affirmation(vA, vQ)), "saysL")
saysRightRule ==
    Rule(<< Sequent(<<>>, Affirmation(vA, vP)) >>, Sequent(<<>>, Proposition(says(vA, vP))), "saysR")
signRule ==
    Rule(<< Sequent(<<>>, Proposition(iskey(vA, Variable("pk")))),
            Sequent(<<>>, Proposition(sign(vP, Variable("pk")))) >>,
         Sequent(<<>>, Proposition(says(vA, vP))), "sign")
certRule ==
    Rule(<< Sequent(<<>>, Proposition(ca(vA))),
            Sequent(<<>>, Proposition(says(vA, iskey(Variable("B"), Variable("pk"))))) >>,
         Sequent(<<>>, Proposition(iskey(Variable("B"), Variable("pk")))), "cert")

\* RuleTactic.apply without the unused assumptions of the goal in the premises
RuleTactic_apply_bare(rule, seq) ==
    LET m == matchs_sequent(rule.conclusion, seq, EmptyRho) IN
    IF m.err # "none" THEN [raised |-> m.err, pfs |-> {}]
    ELSE [raised |-> "none",
          pfs |-> { Proof([i \in DOMAIN rule.premises |-> Leaf(apply_sequent(rule.premises[i], rho))],
                          seq, rule.name) : rho \in Range(m.yields) }]

RuleTactic_apply(rule, seq) ==
    LET m == matchs_sequent(rule.conclusion, seq, EmptyRho) IN
    IF m.err # "none" THEN [raised |-> m.err, pfs |-> {}]
    ELSE [raised |-> "none",
          pfs |-> { LET rule_gamma == Range(apply_sequent(rule.conclusion, rho).gamma)
                        red_gamma == { q \in Range(seq.gamma) : q \notin rule_gamma }
                    IN Proof([i \in DOMAIN rule.premises |->
                                LET prem == apply_sequent(rule.premises[i], rho)
                                IN Leaf(Sequent(SetToSeq(Range(prem.gamma) \cup red_gamma), prem.delta))],
                             seq, rule.name) : rho \in Range(m.yields) }]

\* [ob for ob in obs if ob != seq]
RECURSIVE without_goal(_, _)
without_goal(obs, seq) ==
    IF Len(obs) = 0 THEN <<>>
    ELSE (IF obs[1] # seq THEN <<obs[1]>> ELSE <<>>) \o without_goal(Tail(obs), seq)

\* InstantiateForallTactic.apply with the quantified assumption left in the premise
InstantiateForallTactic_apply_keep(grounds, seq) ==
    [raised |-> "none",
     pfs |-> { Proof(<<Leaf(Sequent(seq.gamma \o <<Proposition(apply_formula(p.p.a[1], Put(EmptyRho, Variable(p.p.n), e)))>>,
                                    seq.delta))>>,
                     seq, IF IsProposition(seq.delta) THEN "@L" ELSE "@Laff") :
                 <<p, e>> \in { pe \in { q \in Range(seq.gamma) : IsForall(q.p) } \X grounds :
                                 Proposition(apply_formula(pe[1].p.a[1], Put(EmptyRho, Variable(pe[1].p.n), pe[2])))
                                     \notin Range(seq.gamma) } }]

\* InstantiateForallTactic(grounds).apply(seq)
InstantiateForallTactic_apply(grounds, seq) ==
    [raised |-> "none",
     pfs |-> { Proof(<<Leaf(Sequent(without_goal(seq.gamma, p)
                                      \o <<Proposition(apply_formula(p.p.a[1], Put(EmptyRho, Variable(p.p.n), e)))>>,
                                    seq.delta))>>,
                     seq, IF IsProposition(seq.delta) THEN "@L" ELSE "@Laff") :
                 <<p, e>> \in { pe \in { q \in Range(seq.gamma) : IsForall(q.p) } \X grounds :
                                 Proposition(apply_formula(pe[1].p.a[1], Put(EmptyRho, Variable(pe[1].p.n), pe[2])))
                                     \notin Range(seq.gamma) } }]

\* Python's None standing where a proof is expected
NoneValue == [t |-> "none", premises |-> <<>>, conclusion |-> NoProof.conclusion, rule |-> ""]

\* chain that replaces the open premises of the root only and leaves the
\* sub-proofs as they are
chain_proofs_shallow(pr, chains) ==
    IF pr.conclusion \in DOMAIN chains THEN chains[pr.conclusion]
    ELSE Proof([i \in DOMAIN pr.premises |->
                  IF IsSequent(pr.premises[i]) /\ pr.premises[i].conclusion \in DOMAIN chains
                  THEN chains[pr.premises[i].conclusion] ELSE pr.premises[i]],
               pr.conclusion, pr.rule)

\* chain(pf, chains)
RECURSIVE chain_proofs(_, _)
chain_proofs(pr, chains) ==
    IF pr.conclusion \in DOMAIN chains THEN chains[pr.conclusion]
    ELSE Proof([i \in DOMAIN pr.premises |->
                  IF IsProof(pr.premises[i]) THEN chain_proofs(pr.premises[i], chains)
                  ELSE IF pr.premises[i].conclusion \in DOMAIN chains
                       THEN (IF chains[pr.premises[i].conclusion] # NoneValue
                             THEN chains[pr.premises[i].conclusion] ELSE pr.premises[i])
                       ELSE pr.premises[i]],
               pr.conclusion, pr.rule)

\* itertools.product of a list of sets, as a set of lists
RECURSIVE product(_)
product(sets) ==
    IF Len(sets) = 0 THEN { <<>> }
    ELSE { <<x>> \o t : x \in sets[1], t \in product(Tail(sets)) }

\* what verify(pf) gives for each proof of pfs: the prover leaves feedback on,
\* and each proof with an @L step sees one of the two orders of line 158
Checks(pfs) ==
    { [q \in pfs |-> IF q \in flipped THEN verify_feedback(q, 1) ELSE verify_feedback(q, 0)] :
        flipped \in SUBSET { q \in pfs : HasLeftForall(q) } }

\* the loop of get_one_proof over the proofs a tactic returned
first_closed(t, checked) ==
    IF t.raised # "none" THEN { [kind |-> "raised", pf |-> NoProof, err |-> t.raised] }
    ELSE IF \E q \in t.pfs : checked[q].err # "none"
    THEN { [kind |-> "raised", pf |-> NoProof, err |-> checked[q].err] : q \in { r \in t.pfs : checked[r].err # "none" } }
         \cup { [kind |-> "proof", pf |-> q, err |-> "none"] : q \in { r \in t.pfs : checked[r] = Returned(<<>>) } }
    ELSE IF \A q \in t.pfs : checked[q] # Returned(<<>>)
    THEN { [kind |-> "None", pf |-> NoProof, err |-> "none"] }
    ELSE { [kind |-> "proof", pf |-> q, err |-> "none"] : q \in { r \in t.pfs : checked[r] = Returned(<<>>) } }

\* get_one_proof(seq, t), given the set outs of the values t.apply(seq) can
\* return: a closed proof of the set, None, or an exception
get_one_proof(outs) ==
    UNION { UNION { first_closed(t, checked) : checked \in Checks(t.pfs) } : t \in outs }

\* lines 134-162 of SignTactic.apply, given what get_one_proof returned for
\* the key binding and for the credential
sign_cut(seq, cred, ag, pf_iskey, pf_cred) ==
    IF pf_iskey.kind = "raised" THEN [raised |-> pf_iskey.err, pfs |-> {}]
    ELSE IF pf_cred.kind = "raised" THEN [raised |-> pf_cred.err, pfs |-> {}]
    ELSE [raised |-> "none",
          pfs |-> { Proof(<< Proof(<< IF pf_iskey.kind = "proof" THEN pf_iskey.pf ELSE NoneValue,
                                      IF pf_cred.kind = "proof" THEN pf_cred.pf ELSE NoneValue >>,
                                   Sequent(seq.gamma, Proposition(says(ag, cred.a[1]))), "sign"),
                             Leaf(Sequent(seq.gamma \o <<Proposition(says(ag, cred.a[1]))>>, seq.delta)) >>,
                          seq, IF IsProposition(seq.delta) THEN "cut" ELSE "affcut") }]

\* SignTactic.apply with the right premise of the cut left as the goal was
SignTactic_apply_samegoal(cred, ag, seq) ==
    IF ~({Proposition(cred), Proposition(iskey(ag, cred.a[2]))} \subseteq Range(seq.gamma))
    THEN { [raised |-> "none", pfs |-> {}] }
    ELSE IF Proposition(says(ag, cred.a[1])) \in Range(seq.gamma)
    THEN { [raised |-> "none", pfs |-> {}] }
    ELSE { [raised |-> "none",
            pfs |-> { Proof(<< Proof(<< Proof(<<>>, Sequent(seq.gamma, Proposition(iskey(ag, cred.a[2]))), "id"),
                                        Proof(<<>>, Sequent(seq.gamma, Proposition(cred)), "id") >>,
                                     Sequent(seq.gamma, Proposition(says(ag, cred.a[1]))), "sign"),
                               Leaf(seq) >>,
                            seq, IF IsProposition(seq.delta) THEN "cut" ELSE "affcut") }] }

\* SignTactic(cred, ag).apply(seq)
SignTactic_apply(cred, ag, seq) ==
    IF ~({Proposition(cred), Proposition(iskey(ag, cred.a[2]))} \subseteq Range(seq.gamma))
    THEN { [raised |-> "none", pfs |-> {}] }
    ELSE IF Proposition(says(ag, cred.a[1])) \in Range(seq.gamma)
    THEN { [raised |-> "none", pfs |-> {}] }
    ELSE { sign_cut(seq, cred, ag, k, c) :
             k \in get_one_proof({ RuleTactic_apply(identityRule, Sequent(seq.gamma, Proposition(iskey(ag, cred.a[2])))) }),
             c \in get_one_proof({ RuleTactic_apply(identityRule, Sequent(seq.gamma, Proposition(cred))) }) }

\* the exception that the first of the calls rs to raise raised, or "none"
first_raised(rs) ==
    IF \A i \in DOMAIN rs : rs[i].raised = "none" THEN "none"
    ELSE rs[CHOOSE i \in DOMAIN rs : rs[i].raised # "none" /\ \A j \in 1..(i - 1) : rs[j].raised = "none"].raised

\* {ob: comb[i] for i, ob in enumerate(obs)}
chains_of(obs, comb) ==
    [ob \in Range(obs) |-> comb[CHOOSE i \in DOMAIN obs : obs[i] = ob /\ \A j \in DOMAIN obs : obs[j] = ob => j <= i]]

\* lines 262-282 for pf1 with the obligations obs, when t2 returned c[i] for obs[i]
continue_proof(pf1, obs, c) ==
    IF first_raised(c) # "none" THEN [raised |-> first_raised(c), pfs |-> {}]
    ELSE [raised |-> "none",
          pfs |-> { chain_proofs(pf1, chains_of(obs, comb)) :
                      comb \in product([i \in DOMAIN obs |->
                                          IF c[i].pfs = {} THEN {Leaf(obs[i])} ELSE c[i].pfs]) }]

\* the union of the proofs collected for each proof of t1
collect(a) ==
    IF first_raised(a) # "none" THEN [raised |-> first_raised(a), pfs |-> {}]
    ELSE [raised |-> "none", pfs |-> UNION { a[i].pfs : i \in DOMAIN a }]

\* tactics as values: a rule, a set of ground terms, a credential and an
\* agent, or a list of tactics with the pass_on flag
NoRule == Rule(<<>>, NoProof.conclusion, "")
RuleTactic(rule) ==
    [kind |-> "rule", rule |-> rule, grounds |-> {}, cred |-> Nil, ag |-> Nil, ts |-> <<>>, pass |-> TRUE]
InstantiateForallTactic(grounds) ==
    [kind |-> "forall", rule |-> NoRule, grounds |-> grounds, cred |-> Nil, ag |-> Nil, ts |-> <<>>, pass |-> TRUE]
SignTactic(cred, ag) ==
    [kind |-> "sign", rule |-> NoRule, grounds |-> {}, cred |-> cred, ag |-> ag, ts |-> <<>>, pass |-> TRUE]
ThenTactic(ts, pass_on) ==
    [kind |-> "then", rule |-> NoRule, grounds |-> {}, cred |-> Nil, ag |-> Nil, ts |-> ts, pass |-> pass_on]

\* the values t.apply(seq) can return, and those ThenTactic(ts, pass_on).apply(seq) can
RECURSIVE Tactic_apply(_, _)
RECURSIVE ThenTactic_apply(_, _, _)

\* the loop of lines 249-284 over the proofs pfs of t1; checked[pf1] is verify(pf1)
then_loop(ts, pass_on, seq, pfs, checked) ==
    LET failing == { pf1 \in pfs : checked[pf1].err # "none" }
        closed == { pf1 \in pfs : checked[pf1].err = "none" /\ without_goal(checked[pf1].obs, seq) = <<>> }
        unfinished == SetToSeq({ pf1 \in pfs : checked[pf1].err = "none"
                                              /\ without_goal(checked[pf1].obs, seq) # <<>> })
    IN
    { [raised |-> checked[pf1].err, pfs |-> {}] : pf1 \in failing }
    \cup { [raised |-> "none", pfs |-> {pf1}] : pf1 \in closed }
    \cup (IF closed # {} \/ failing # {} THEN {}
          ELSE { collect(a) :
                   a \in product([k \in DOMAIN unfinished |->
                          { continue_proof(unfinished[k], without_goal(checked[unfinished[k]].obs, seq), c) :
                              c \in product([i \in DOMAIN without_goal(checked[unfinished[k]].obs, seq) |->
                                       ThenTactic_apply(Tail(ts), pass_on,
                                                        without_goal(checked[unfinished[k]].obs, seq)[i])]) }]) })

then_first(ts, pass_on, seq, t1) ==
    IF t1.raised # "none" THEN { t1 }
    ELSE IF t1.pfs = {}
    THEN (IF pass_on THEN ThenTactic_apply(Tail(ts), pass_on, seq) ELSE { [raised |-> "none", pfs |-> {}] })
    ELSE UNION { then_loop(ts, pass_on, seq, t1.pfs, checked) : checked \in Checks(t1.pfs) }

ThenTactic_apply(ts, pass_on, seq) ==
    IF Len(ts) = 0 THEN { [raised |-> "none", pfs |-> {}] }
    ELSE UNION { then_first(ts, pass_on, seq, t1) : t1 \in Tactic_apply(ts[1], seq) }

Tactic_apply(t, seq) ==
    CASE t.kind = "rule" -> { RuleTactic_apply(t.rule, seq) }
      [] t.kind = "forall" -> { InstantiateForallTactic_apply(t.grounds, seq) }
      [] t.kind = "sign" -> SignTactic_apply(t.cred, t.ag, seq)
      [] t.kind = "then" -> ThenTactic_apply(t.ts, t.pass, seq)

prove(seq) ==
    get_one_proof(ThenTactic_apply(<<RuleTactic(impLeftRule), RuleTactic(identityRule)>>, TRUE, seq))

\* the sequents handed to prove: `P -> Q, P |- Q` with the assumptions in
\* either order, and the same goal from one of the two assumptions, from
\* the goal itself and from nothing
ProverFormulas == { fA, fB, fFalse, fAll, fSays, vP, fImp, implies(fB, fA), implies(fA, fA) }
ProverSequents ==
    UNION { { Sequent(<<Proposition(implies(p, q)), Proposition(p)>>, Proposition(q)),
              Sequent(<<Proposition(p), Proposition(implies(p, q))>>, Proposition(q)),
              Sequent(<<Proposition(implies(p, q))>>, Proposition(q)),
              Sequent(<<Proposition(p)>>, Proposition(q)),
              Sequent(<<>>, Proposition(q)) } : p, q \in ProverFormulas }

InitProver ==
    /\ pc = "prove"
    /\ arg \in [f : {"prove"}, seq : ProverSequents]
    /\ ret = NoRet
    /\ pf = NoProof /\ hashOrder = 0 /\ result = NoResult
    /\ cert = NoCert /\ chain = <<>> /\ roots = {} /\ certResult = "unset"
    /\ req = NoRequest /\ gamma = <<>> /\ reqResult = NoOutcome

\* prove(seq)
Prove ==
    /\ pc = "prove"
    /\ ret' \in prove(arg.seq)
    /\ pc' = "proved"
    /\ UNCHANGED <<pf, hashOrder, result, cert, chain, roots, certResult, req, gamma, reqResult, arg>>

NextProver == Prove
SpecProver == InitProver /\ [][NextProver]_vars

(***************************************************************************)
(* prover.py: the tactics applied on their own, and chain.  The sequents   *)
(* assume at most MaxTacticGamma judgements of a pool with a credential,   *)
(* its key binding, the statement they yield, quantified formulas (one     *)
(* whose variable does not occur in its body) and implications.            *)
(***************************************************************************)
MaxTacticGamma == 3
fAllVacuous == Forall(vX, fA)
TacticPool ==
    { Proposition(fSign), Proposition(fIsKey), Proposition(fSays), Proposition(fAll),
      Proposition(fAllVacuous), Proposition(fImp), Proposition(implies(fB, fA)),
      Proposition(fA), Proposition(fB) }
TacticSequents ==
    { Sequent(SetToSeq(S), d) :
        S \in { T \in SUBSET TacticPool : Cardinality(T) <= MaxTacticGamma },
        d \in { Proposition(fA), Proposition(fB), Proposition(fSays), Proposition(fImp),
                Affirmation(agA, fA) } }

RuleTactics ==
    { RuleTactic(r) : r \in { identityRule, falseLeftRule, impRightRule, impLeftRule, impLeftAffRule,
                              forallLeftAffRule, weakenRule, cutRule, affCutRule, affRule,
                              saysLeftRule, saysRightRule, signRule, certRule } }
ForallTactics == { InstantiateForallTactic({agA, agB}), InstantiateForallTactic({agB}) }
SignTactics == { SignTactic(fSign, agA), SignTactic(fSign, agB), SignTactic(sign(fB, keyK), agA) }
ThenTactics ==
    { ThenTactic(ts, pass_on) :
        ts \in { << RuleTactic(impLeftRule), RuleTactic(identityRule) >>,
                 << RuleTactic(identityRule), RuleTactic(impLeftRule) >>,
                 << RuleTactic(impRightRule), RuleTactic(identityRule) >>,
                 << InstantiateForallTactic({agA, agB}), RuleTactic(identityRule) >>,
                 << SignTactic(fSign, agA), RuleTactic(identityRule) >>,
                 << ThenTactic(<< RuleTactic(impLeftRule), RuleTactic(identityRule) >>, TRUE),
                    RuleTactic(identityRule) >> },
        pass_on \in BOOLEAN }
Tactics == RuleTactics \cup ForallTactics \cup SignTactics \cup ThenTactics

\* proofs with open premises, and maps from sequents to proofs
ChainLeft == Sequent(<<Proposition(fA)>>, Proposition(fA))
ChainRight == Sequent(<<Proposition(fB)>>, Proposition(fA))
ChainGoal == Sequent(<<Proposition(fImp), Proposition(fA)>>, Proposition(fB))
ChainProofs ==
    { Proof(<<Leaf(ChainLeft), Leaf(ChainRight)>>, ChainGoal, "->L"),
      Proof(<<Proof(<<Leaf(ChainLeft)>>, ChainRight, "W"), Leaf(ChainLeft)>>, ChainGoal, "cut"),
      Proof(<<Leaf(ChainRight), Proof(<<>>, ChainLeft, "id"), Leaf(ChainRight)>>, ChainGoal, "cut"),
      Proof(<<>>, ChainLeft, "id") }
ChainKeys == { ChainLeft, ChainRight, ChainGoal, Sequent(<<>>, Proposition(fB)) }
ChainValues ==
    { Proof(<<>>, ChainLeft, "id"), Proof(<<Leaf(ChainRight)>>, ChainLeft, "W"),
      Proof(<<Leaf(ChainLeft)>>, ChainRight, "W") }
ChainMaps == UNION { [D -> ChainValues] : D \in SUBSET ChainKeys }

InitTactics ==
    /\ \/ /\ pc = "apply"
          /\ arg \in [f : {"apply"}, t : Tactics, seq : TacticSequents]
       \/ /\ pc = "chain"
          /\ arg \in [f : {"chain"}, pf : ChainProofs, chains : ChainMaps]
    /\ ret = NoRet
    /\ pf = NoProof /\ hashOrder = 0 /\ result = NoResult
    /\ cert = NoCert /\ chain = <<>> /\ roots = {} /\ certResult = "unset"
    /\ req = NoRequest /\ gamma = <<>> /\ reqResult = NoOutcome

\* t.apply(seq)
ApplyTactic ==
    /\ pc = "apply"
    /\ ret' \in Tactic_apply(arg.t, arg.seq)
    /\ pc' = "tactic applied"
    /\ UNCHANGED <<pf, hashOrder, result, cert, chain, roots, certResult, req, gamma, reqResult, arg>>

\* chain(pf, chains)
Chain ==
    /\ pc = "chain"
    /\ ret' = chain_proofs(arg.pf, arg.chains)
    /\ pc' = "chained"
    /\ UNCHANGED <<pf, hashOrder, result, cert, chain, roots, certResult, req, gamma, reqResult, arg>>

NextTactics == ApplyTactic \/ Chain
SpecTactics == InitTactics /\ [][NextTactics]_vars

(***************************************************************************)
(* Properties of verify (SpecVerify).                                      *)
(***************************************************************************)
\* every node of the tree passes the step check of its rule
RECURSIVE AllPass(_, _)
AllPass(pr, ord) ==
    \/ IsSequent(pr)
    \/ /\ verify_step(pr, ord) = "True"
       /\ \A i \in DOMAIN pr.premises : AllPass(pr.premises[i], ord)

\* the number of Sequent leaves of the tree that equal s
RECURSIVE SumSeq(_)
SumSeq(ns) == IF Len(ns) = 0 THEN 0 ELSE ns[1] + SumSeq(Tail(ns))

RECURSIVE LeafCount(_, _)
LeafCount(pr, s) ==
    IF IsSequent(pr) THEN (IF pr.conclusion = s THEN 1 ELSE 0)
    ELSE SumSeq([i \in DOMAIN pr.premises |-> LeafCount(pr.premises[i], s)])

RECURSIVE LeafSet(_)
LeafSet(pr) ==
    IF IsSequent(pr) THEN {pr.conclusion}
    ELSE UNION { LeafSet(pr.premises[i]) : i \in DOMAIN pr.premises }

CountIn(sq, s) == Cardinality({ i \in DOMAIN sq : sq[i] = s })

\* the conclusions of the nodes that fail their step check and are reached by
\* the descent (every ancestor passes)
RECURSIVE Offending(_, _)
Offending(pr, ord) ==
    IF IsSequent(pr) THEN {}
    ELSE IF verify_step(pr, ord) = "False" THEN {pr.conclusion}
    ELSE IF verify_step(pr, ord) # "True" THEN {}
    ELSE UNION { Offending(pr.premises[i], ord) : i \in DOMAIN pr.premises }

\* C7: verify(pf) returns the empty list exactly when every node passes its
\* step check and the tree has no Sequent premise; when every node passes,
\* the returned list holds exactly the Sequent leaves of the tree, each as
\* often as it occurs.
C7_VerifyReturnsLeaves ==
    pc = "done" =>
        /\ (result = Returned(<<>>)) <=> (AllPass(pf, hashOrder) /\ LeafSet(pf) = {})
        /\ AllPass(pf, hashOrder) =>
              /\ result.err = "none"
              /\ \A s \in Range(result.obs) \cup LeafSet(pf) :
                    CountIn(result.obs, s) = LeafCount(pf, s)

\* a legal two-level proof with an open obligation at each level
C7_Witness ==
    /\ pc = "done"
    /\ AllPass(pf, hashOrder)
    /\ Len(result.obs) = 2
    /\ \E i \in DOMAIN pf.premises : IsSequent(pf.premises[i])
    /\ \E i \in DOMAIN pf.premises :
          /\ IsProof(pf.premises[i])
          /\ \E k \in DOMAIN pf.premises[i].premises : IsSequent(pf.premises[i].premises[k])

\* C8 as stated: if a node at any depth fails its step check, verify returns
\* exactly one element, the conclusion of that node.
C8_SingleOffender ==
    (pc = "done" /\ result.err = "none" /\ Offending(pf, hashOrder) # {}) =>
        /\ Len(result.obs) = 1
        /\ result.obs[1] \in Offending(pf, hashOrder)

\* C8 amended: if the root fails its step check, verify returns exactly the
\* root's conclusion; if verify returns, the conclusion of every failing node
\* it reaches is in the returned list, next to the open obligations found on
\* the way, so that the list is not empty.
C8_OffenderReported ==
    pc = "done" =>
        /\ verify_step(pf, hashOrder) = "False" => result = Returned(<<pf.conclusion>>)
        /\ result.err = "none" => Offending(pf, hashOrder) \subseteq Range(result.obs)

\* a failing node below a passing root that also has an open obligation
C8_Witness ==
    /\ pc = "done"
    /\ result.err = "none"
    /\ verify_step(pf, hashOrder) = "True"
    /\ Offending(pf, hashOrder) # {}
    /\ Len(result.obs) = 2

\* the assumptions a rule introduces into the premises of the node pr
Introduced(pr) ==
    LET cg == GammaSet(pr.conclusion) IN
    CASE pr.rule = "->R" ->
            IF IsOp(pr.conclusion.delta.p, "IMPLIES")
            THEN {Proposition(pr.conclusion.delta.p.a[1])} ELSE {}
      [] pr.rule \in {"->L", "->Laff"} ->
            { Proposition(q.p.a[2]) : q \in { g \in cg : IsOp(g.p, "IMPLIES") } }
      [] pr.rule \in {"cut", "affcut"} ->
            IF Len(pr.premises) >= 1
            THEN {PremDelta(pr, 1), Proposition(PremDelta(pr, 1).p)} ELSE {}
      [] pr.rule = "saysL" ->
            { Proposition(q.p.a[2]) : q \in { g \in cg : IsOp(g.p, "SAYS") } }
      [] OTHER -> {}

\* the judgement jd is an instance of the quantified assumption q
IsInstance(q, jd) ==
    /\ IsForall(q.p)
    /\ IsProposition(jd)
    /\ LET m == matchs(<< <<q.p.a[1], jd.p>> >>, EmptyRho) IN
         /\ m.st = "ok"
         /\ Variable(q.p.n) \in DOMAIN m.rho
         /\ apply_formula(q.p.a[1], Put(EmptyRho, Variable(q.p.n), m.rho[Variable(q.p.n)])) = jd.p

\* every premise of the node pr assumes only what the conclusion assumes and
\* what the rule introduces
NoSmuggle(pr) ==
    \A i \in DOMAIN pr.premises :
        LET extra == PremGamma(pr, i) \ GammaSet(pr.conclusion) IN
        IF pr.rule \in {"@L", "@Laff"}
        THEN /\ Cardinality(extra) <= 1
             /\ \A jd \in extra : \E q \in GammaSet(pr.conclusion) : IsInstance(q, jd)
        ELSE extra \subseteq Introduced(pr)

RECURSIVE AcceptedNodes(_, _)
AcceptedNodes(pr, ord) ==
    IF IsSequent(pr) THEN {}
    ELSE (IF verify_step(pr, ord) = "True" THEN {pr} ELSE {})
         \cup UNION { AcceptedNodes(pr.premises[i], ord) : i \in DOMAIN pr.premises }

\* C9 as stated: no node that verify_step accepts has a premise whose gamma
\* holds an assumption that is neither in the conclusion's gamma nor
\* introduced by the node's rule.
C9_NoSmuggledAssumptions ==
    pc = "done" => \A n \in AcceptedNodes(pf, hashOrder) : NoSmuggle(n)

\* C10 as stated: verify returns a list of sequents for every proof tree and
\* never stops with an unhandled error.
C10_VerifyNeverRaises ==
    pc = "done" => result.err = "none"

(***************************************************************************)
(* Properties of verify_cert (SpecCert) and verify_request (Spec).         *)
(***************************************************************************)
\* (a) every certificate of the request passes verify_cert
CertsVerify(rq, rts) ==
    \A i \in DOMAIN rq.certs :
        verify_cert(rq.certs[i], cert_chain(rq.certs), rts, RecursionLimit) = "True"

\* (b) every credential validates under the key of its signator's certificate
CredsVerify(rq) ==
    \A i \in DOMAIN rq.creds :
        /\ rq.creds[i].signator \in DOMAIN cert_chain(rq.certs)
        /\ verify_signature(rq.creds[i], cert_chain(rq.certs)[rq.creds[i].signator].public_key)

\* (c) the proof, rebased onto the reconstructed gamma, has an empty verify() result
ProofCloses(rq, ord) ==
    /\ get_cas(rq.proof.conclusion) \subseteq DOMAIN cert_chain(rq.certs)
    /\ verify(rebased_request_proof(rq), ord) = Returned(<<>>)

\* C1 as stated: verify_request returns a credential exactly when (a), (b)
\* and (c) hold, and returns None in every other case.
C1_CredentialIffVerified ==
    pc = "done" =>
        LET ok == CertsVerify(req, roots) /\ CredsVerify(req) /\ ProofCloses(req, hashOrder) IN
        /\ reqResult.kind = "credential" <=> ok
        /\ ~ok => reqResult.kind = "None"

C3_SelfSignedInRoots ==
    (pc = "done" /\ certResult = "True" /\ cert.agent = cert.cred.signator) => cert \in roots

C5_MissingEvidenceRejected ==
    pc = "done" =>
        /\ \A i \in DOMAIN req.certs :
              req.certs[i].cred.signator \notin DOMAIN chain =>
                  verify_cert(req.certs[i], chain, roots, RecursionLimit) = "False"
        /\ (\/ \E i \in DOMAIN req.certs : req.certs[i].cred.signator \notin DOMAIN chain
            \/ \E i \in DOMAIN req.creds : req.creds[i].signator \notin DOMAIN chain
            \/ ~(get_cas(req.proof.conclusion) \subseteq DOMAIN chain))
           => reqResult.kind = "None"

\* C6 as stated, for chain maps that hold the certificate of every issuer:
\* verify_cert ends with True or False, also when the issuers form a cycle.
C6_ChainVerificationTerminates ==
    (/\ pc = "done"
     /\ cert.cred.signator \in DOMAIN chain
     /\ \A a \in DOMAIN chain : chain[a].cred.signator \in DOMAIN chain)
    => certResult \in {"True", "False"}

(***************************************************************************)
(* Properties of single rules (SpecVerify).                                *)
(***************************************************************************)
\* C19 as stated: a botL step is accepted only if it has no premises, its
\* goal is a truth judgement and `false true` is assumed by its conclusion.
C19_BotLNeedsFalse ==
    pc = "done" =>
        \A n \in AcceptedNodes(pf, hashOrder) :
            n.rule = "botL" =>
                /\ Len(n.premises) = 0
                /\ IsProposition(n.conclusion.delta)
                /\ Proposition(App("FALSE", <<>>)) \in GammaSet(n.conclusion)

\* the variables that occur free in a formula
RECURSIVE FreeVars(_)
FreeVars(f) ==
    CASE f.k = "var" -> {f}
      [] f.k = "app" -> UNION { FreeVars(f.a[i]) : i \in DOMAIN f.a }
      [] f.k = "forall" -> FreeVars(f.a[1]) \ {Variable(f.n)}
      [] OTHER -> {}

FreeVarsOfSequent(seq) ==
    UNION { FreeVars(jd.p) \cup FreeVars(jd.a) : jd \in GammaSet(seq) \cup {seq.delta} }

\* C20 as stated: an @R step with goal `@x . P` is accepted only if its one
\* premise has the goal P with x replaced by a variable y that does not
\* occur free in the conclusion.
C20_RightForallWitness ==
    pc = "done" =>
        \A n \in AcceptedNodes(pf, hashOrder) :
            n.rule = "@R" =>
                /\ Len(n.premises) = 1
                /\ IsForall(n.conclusion.delta.p)
                /\ \E y \in FreeVars(PremDelta(n, 1).p) \cup {Variable(n.conclusion.delta.p.n)} :
                      /\ PremDelta(n, 1).p =
                            apply_formula(n.conclusion.delta.p.a[1],
                                          Put(EmptyRho, Variable(n.conclusion.delta.p.n), y))
                      /\ y \notin FreeVarsOfSequent(n.conclusion)

\* the formulas that occur in a formula
RECURSIVE SubFormulas(_)
SubFormulas(f) ==
    {f} \cup (IF f.k \in {"app", "forall"} THEN UNION { SubFormulas(f.a[i]) : i \in DOMAIN f.a } ELSE {})

\* jd is `P[e/x] true` for the quantified assumption q = `@x . P true` and some e
InstanceOf(q, jd) ==
    /\ IsProposition(q) /\ IsForall(q.p) /\ IsProposition(jd)
    /\ \E e \in SubFormulas(jd.p) \cup {Variable(q.p.n)} :
          jd.p = apply_formula(q.p.a[1], Put(EmptyRho, Variable(q.p.n), e))

\* the premise of n assumes what the conclusion assumes, with one quantified
\* assumption replaced by one instance of it
ReplacesOne(n) ==
    \E q \in GammaSet(n.conclusion) \ PremGamma(n, 1) :
        \E jd \in PremGamma(n, 1) \ GammaSet(n.conclusion) :
            /\ InstanceOf(q, jd)
            /\ PremGamma(n, 1) \ {jd} = GammaSet(n.conclusion) \ {q}

\* C21 as stated: an @L/@Laff step is accepted only if its goal is unchanged
\* and the premise assumes what the conclusion assumes with exactly one
\* quantified assumption replaced by one instance of it; a premise that adds
\* a new quantified formula and an instance of it is rejected.
C21_LeftForallReplacesOne ==
    pc = "done" =>
        \A n \in AcceptedNodes(pf, hashOrder) :
            n.rule \in {"@L", "@Laff"} =>
                /\ Len(n.premises) = 1
                /\ PremDelta(n, 1) = n.conclusion.delta
                /\ ReplacesOne(n)

\* the premise of the root adds a quantified formula and an instance of it to
\* what the conclusion assumes, and the step is accepted
LeftForallAddsBoth ==
    /\ pc = "done" /\ pf.rule \in {"@L", "@Laff"} /\ Len(pf.premises) = 1
    /\ verify_step(pf, hashOrder) = "True"
    /\ GammaSet(pf.conclusion) \subseteq PremGamma(pf, 1)
    /\ \E q, jd \in PremGamma(pf, 1) \ GammaSet(pf.conclusion) : InstanceOf(q, jd)

\* C22 as stated: a ->L/->Laff step is accepted only if the left premise
\* proves `P true` for an antecedent P and assumes nothing new, the right
\* premise has the goal of the conclusion, and every assumption Q the right
\* premise adds has `P -> Q true` among the assumptions of the conclusion.
C22_ImpLeftAntecedent ==
    pc = "done" =>
        \A n \in AcceptedNodes(pf, hashOrder) :
            n.rule \in {"->L", "->Laff"} =>
                /\ Len(n.premises) = 2
                /\ IsProposition(PremDelta(n, 1))
                /\ \E g \in GammaSet(n.conclusion) :
                      IsProposition(g) /\ IsOp(g.p, "IMPLIES") /\ g.p.a[1] = PremDelta(n, 1).p
                /\ PremGamma(n, 1) \subseteq GammaSet(n.conclusion)
                /\ PremDelta(n, 2) = n.conclusion.delta
                /\ \A jd \in PremGamma(n, 2) \ GammaSet(n.conclusion) :
                      /\ IsProposition(jd)
                      /\ Proposition(App("IMPLIES", <<PremDelta(n, 1).p, jd.p>>)) \in GammaSet(n.conclusion)

\* C23 as stated: a ->R step with goal `P -> Q true` is accepted only if its
\* one premise has the goal `Q true` and assumes exactly what the conclusion
\* assumes together with `P true`.
C23_ImpRightGamma ==
    pc = "done" =>
        \A n \in AcceptedNodes(pf, hashOrder) :
            n.rule = "->R" =>
                /\ Len(n.premises) = 1
                /\ IsProposition(n.conclusion.delta) /\ IsOp(n.conclusion.delta.p, "IMPLIES")
                /\ PremDelta(n, 1) = Proposition(n.conclusion.delta.p.a[2])
                /\ PremGamma(n, 1) = GammaSet(n.conclusion) \cup {Proposition(n.conclusion.delta.p.a[1])}

(***************************************************************************)
(* Properties of rebase_proof and make_for_proof (SpecRebase).             *)
(***************************************************************************)
\* the sequents of a proof: the conclusion and the premises at every depth
RECURSIVE SequentsOf(_)
SequentsOf(pr) ==
    IF IsProof(pr)
    THEN {pr.conclusion} \cup UNION { SequentsOf(pr.premises[i]) : i \in DOMAIN pr.premises }
    ELSE {pr.conclusion}

\* C11: after rebase_proof(pf, gamma_new) every sequent of the result has a
\* gamma equal, as a set, to gamma_new; the proof of a request built by
\* make_for_proof has no assumption left in any sequent.
C11_RebaseSetsGamma ==
    /\ pc = "rebased" => \A q \in SequentsOf(ret) : GammaSet(q) = Range(arg.gamma)
    /\ (pc = "made" /\ ret # Exception("ValueError")) => \A q \in SequentsOf(ret.proof) : GammaSet(q) = {}

\* two proofs of the same shape, rules and goals whose sequents assume the
\* same sets of judgements
RECURSIVE SameProof(_, _)
SameProof(p, q) ==
    /\ p.t = q.t /\ p.rule = q.rule
    /\ p.conclusion.delta = q.conclusion.delta
    /\ GammaSet(p.conclusion) = GammaSet(q.conclusion)
    /\ Len(p.premises) = Len(q.premises)
    /\ \A i \in DOMAIN p.premises : SameProof(p.premises[i], q.premises[i])

\* C12: rebasing is idempotent: rebasing the result of rebase_proof(pf, G)
\* onto G again gives the same tree, rules and goals and the same set of
\* assumptions in every sequent.
C12_RebaseIdempotent ==
    [][(pc = "rebased" /\ pc' = "rebased twice") => SameProof(ret', ret)]_vars

\* rebased twice: a proof that assumes a signature and another judgement,
\* neither of them in the target context, which is not empty
C12_Witness ==
    /\ pc = "rebased twice"
    /\ arg.gamma # <<>>
    /\ \E q \in SequentsOf(arg.pf) :
         /\ \E p \in GammaSet(q) : IsOp(p.p, "SIGN") /\ p \notin Range(arg.gamma)
         /\ \E p \in GammaSet(q) : ~IsOp(p.p, "SIGN") /\ p \notin Range(arg.gamma)
    /\ \E q \in SequentsOf(ret) : GammaSet(q) # Range(arg.gamma)

\* pf is closed and the target context holds the assumptions of its
\* conclusion and every sign and iskey assumption of its sequents
ClosedUnder(pr, gam) ==
    /\ \A ord \in Orders(pr) : verify(pr, ord) = Returned(<<>>)
    /\ GammaSet(pr.conclusion) \subseteq Range(gam)
    /\ \A q \in SequentsOf(pr) : \A p \in GammaSet(q) :
         (IsOp(p.p, "SIGN") \/ IsOp(p.p, "ISKEY")) => p \in Range(gam)

\* C13: a closed proof rebased onto a context that contains its own is still
\* closed, proofs by @L, @Laff and @R included.
C13_RebasePreservesClosed ==
    (pc = "verified" /\ ClosedUnder(arg.pf, arg.gamma)) => result = Returned(<<>>)

\* C18: make_for_proof raises ValueError when the goal of the conclusion is
\* not `A says open(B, R)`; the signature of a request it builds states
\* exactly that goal and is signed by the requesting agent.
C18_MakeForProofGoal ==
    pc = "made" =>
        LET goal == arg.pf.conclusion.delta.p
            form == /\ IsOp(goal, "SAYS") /\ Len(goal.a) = 2
                    /\ IsOp(goal.a[2], "OPEN") /\ Len(goal.a[2].a) = 2
        IN /\ ~form => ret = Exception("ValueError")
           /\ ret # Exception("ValueError") =>
                /\ ret.signature.p = goal
                /\ ret.signature.signator = arg.ag
                /\ verify_signature(ret.signature, PublicKey(arg.ag))

\* a request made on behalf of an agent the goal does not mention
C18_Witness ==
    /\ pc = "made"
    /\ ret # Exception("ValueError")
    /\ arg.ag \notin Range(arg.pf.conclusion.delta.p.a)
    /\ ret.signature.signator = arg.ag

\* q is p with every gamma replaced by its assumptions that are no
\* signature outside gam, united with gam
RECURSIVE RebasedFrom(_, _, _)
RebasedFrom(q, p, gam) ==
    /\ q.t = p.t /\ q.rule = p.rule
    /\ q.conclusion.delta = p.conclusion.delta
    /\ GammaSet(q.conclusion) =
          { x \in GammaSet(p.conclusion) : ~IsOp(x.p, "SIGN") \/ x \in Range(gam) } \cup Range(gam)
    /\ Len(q.premises) = Len(p.premises)
    /\ \A i \in DOMAIN p.premises : RebasedFrom(q.premises[i], p.premises[i], gam)

C14_MatchSound ==
    (pc = "matched" /\ ret.st = "ok") => apply_formula(arg.t, ret.rho) = arg.o

\* C15 as stated: for every formula and every substitution, applying the
\* substitution a second time changes nothing.
C15_ApplyIdempotent ==
    [][(pc = "applied" /\ pc' = "applied twice") => ret' = ret]_vars

\* rho maps to formulas that mention no variable rho replaces and no
\* template hole
RECURSIVE HasHole(_)
HasHole(p) ==
    CASE p.k = "app" -> p.n = "OTHER" \/ \E i \in DOMAIN p.a : HasHole(p.a[i])
      [] p.k = "forall" -> HasHole(p.a[1])
      [] OTHER -> FALSE
Settled(rho) ==
    \A v \in DOMAIN rho : allvars_formula(rho[v]) \cap DOMAIN rho = {} /\ ~HasHole(rho[v])

\* C15, amended: applying a substitution a second time changes nothing
\* when no formula the substitution maps to mentions a variable of its
\* domain or a template hole.
C15_ApplyIdempotentSettled ==
    [][(pc = "applied" /\ pc' = "applied twice" /\ Settled(arg.rho)) => ret' = ret]_vars

\* a quantified formula under a substitution that replaces its bound
\* variable and a free one, applied twice
C15_Witness ==
    /\ pc = "applied twice"
    /\ Settled(arg.rho)
    /\ IsForall(arg.p)
    /\ Variable(arg.p.n) \in DOMAIN arg.rho
    /\ ret # arg.p

\* C25 as stated: matchs returns a substitution or None for every equation
\* and every starting substitution, and never ends with an unhandled error:
\* not when a match fails under a quantifier whose bound variable the
\* starting substitution binds, nor at the second occurrence of a hole P(e)
\* whose P is bound to a formula without the hole's variable.
C25_MatchTotal ==
    pc \in {"matched", "matched from"} => ret.st \in {"ok", "None"}

\* the reorderings of a list
Reorderings(g) ==
    { [i \in DOMAIN g |-> g[q[i]]] : q \in Range(permutations(Len(g), Len(g), {}, 1)) }

\* C16: matchs_sequent yields a substitution for a sequent exactly when it
\* yields one for every reordering of the assumptions of that sequent.
C16_MatchSequentPermutation ==
    pc = "sequent matched" =>
        \A g \in Reorderings(arg.seq2.gamma) :
            (Len(matchs_sequent(arg.seq1, Sequent(g, arg.seq2.delta), arg.rho).yields) > 0)
                <=> (Len(ret.yields) > 0)

(***************************************************************************)
(* Properties of the prover (SpecProver).                                  *)
(***************************************************************************)
\* `P -> Q true, P true |- Q true`, the two assumptions in either order
IsModusPonens(seq) ==
    /\ Len(seq.gamma) = 2 /\ IsProposition(seq.delta)
    /\ \E i, j \in {1, 2} :
         /\ i # j
         /\ IsProposition(seq.gamma[i]) /\ IsProposition(seq.gamma[j])
         /\ seq.gamma[i].p = implies(seq.gamma[j].p, seq.delta.p)

\* C17: on `P -> Q true, P true |- Q true`, with the assumptions in either
\* order, prove returns a proof, not None; the proof concludes that sequent
\* and verify finds no open obligation in it.
C17_ModusPonensFound ==
    (pc = "proved" /\ IsModusPonens(arg.seq)) =>
        /\ ret.kind = "proof"
        /\ ret.pf.conclusion = arg.seq
        /\ verify(ret.pf, 0) = Returned(<<>>)

\* proved with the implication listed second and P itself an implication,
\* so that ->L applies to either assumption
C17_Witness ==
    /\ pc = "proved"
    /\ IsModusPonens(arg.seq)
    /\ IsOp(arg.seq.gamma[1].p, "IMPLIES")
    /\ arg.seq.gamma[2].p = implies(arg.seq.gamma[1].p, arg.seq.delta.p)
    /\ ret.kind = "proof"
    /\ ret.pf.rule = "->L"
    /\ \A i \in DOMAIN ret.pf.premises : IsProof(ret.pf.premises[i]) /\ ret.pf.premises[i].rule = "id"

(***************************************************************************)
(* Properties of the tactics (SpecTactics).                                *)
(***************************************************************************)
\* gamma holds the credential and the key binding, and not yet the statement
SignApplicable(cred, ag, seq) ==
    /\ Proposition(cred) \in Range(seq.gamma)
    /\ Proposition(iskey(ag, cred.a[2])) \in Range(seq.gamma)
    /\ Proposition(says(ag, cred.a[1])) \notin Range(seq.gamma)

\* C26: SignTactic(sign(P, k), A).apply(seq) returns the empty set unless
\* gamma holds `sign(P, k) true` and `iskey(A, k) true` and not `A says P
\* true`; otherwise it returns exactly one proof, which concludes seq by cut
\* (truth goal) or affcut (affirmation goal); its left premise is a closed
\* proof by rule sign over two id steps, and verify of the whole proof
\* returns one obligation, seq with `A says P true` added to gamma.
C26_SignTactic ==
    (pc = "tactic applied" /\ arg.t.kind = "sign") =>
        /\ ret.raised = "none"
        /\ ~SignApplicable(arg.t.cred, arg.t.ag, arg.seq) => ret.pfs = {}
        /\ SignApplicable(arg.t.cred, arg.t.ag, arg.seq) =>
             /\ Cardinality(ret.pfs) = 1
             /\ \A p \in ret.pfs :
                  /\ IsProof(p)
                  /\ p.conclusion = arg.seq
                  /\ p.rule = (IF IsProposition(arg.seq.delta) THEN "cut" ELSE "affcut")
                  /\ verify(p, 0) = Returned(<< Sequent(arg.seq.gamma
                                                          \o << Proposition(says(arg.t.ag, arg.t.cred.a[1])) >>,
                                                        arg.seq.delta) >>)
                  /\ Len(p.premises) = 2
                  /\ IsProof(p.premises[1])
                  /\ p.premises[1].rule = "sign"
                  /\ verify(p.premises[1], 0) = Returned(<<>>)
                  /\ Len(p.premises[1].premises) = 2
                  /\ \A i \in {1, 2} :
                       /\ IsProof(p.premises[1].premises[i])
                       /\ p.premises[1].premises[i].rule = "id"
                       /\ p.premises[1].premises[i].premises = <<>>

\* the tactic applied to an affirmation goal whose assumptions hold the
\* credential and the key binding: one proof, by affcut
C26_Witness ==
    /\ pc = "tactic applied"
    /\ arg.t.kind = "sign"
    /\ SignApplicable(arg.t.cred, arg.t.ag, arg.seq)
    /\ IsAffirmation(arg.seq.delta)
    /\ \E p \in ret.pfs : p.rule = "affcut"

\* what the remaining tactics can return on each of the obligations obs
RestYields(ts, pass_on, obs) ==
    { f \in [Range(obs) -> UNION { ThenTactic_apply(Tail(ts), pass_on, ob) : ob \in Range(obs) }] :
        \A ob \in Range(obs) : f[ob] \in ThenTactic_apply(Tail(ts), pass_on, ob) /\ f[ob].raised = "none" }

\* one proof per obligation from what the remaining tactics yielded on it,
\* the obligation itself where they yielded nothing
Combinations(obs, yields) ==
    { m \in [Range(obs) -> UNION { yields[ob].pfs \cup {Leaf(ob)} : ob \in Range(obs) }] :
        \A ob \in Range(obs) :
            m[ob] \in (IF yields[ob].pfs = {} THEN {Leaf(ob)} ELSE yields[ob].pfs) }

\* every combination for the t1 proof pf1, spliced in by chain, is in pfs
AllSpliced(ts, pass_on, seq, pf1, pfs) ==
    \E checked \in Checks({pf1}) :
        /\ checked[pf1].err = "none"
        /\ \E yields \in RestYields(ts, pass_on, without_goal(checked[pf1].obs, seq)) :
             \A m \in Combinations(without_goal(checked[pf1].obs, seq), yields) :
                 chain_proofs(pf1, m) \in pfs

\* C27 as stated: ThenTactic([t1, t2, ...]).apply(seq), when it returns: if
\* t1 yields no proof, the result is what the remaining tactics yield on seq
\* when pass_on is true and the empty set when it is false; if t1 yields
\* proofs, the result holds, for every t1 proof and every combination of one
\* proof per open obligation, the t1 proof with the combination spliced in
\* by chain, so that no t1 proof is left out of the result.
C27_ThenTacticCombines ==
    (pc = "tactic applied" /\ arg.t.kind = "then" /\ ret.raised = "none") =>
        \E t1 \in Tactic_apply(arg.t.ts[1], arg.seq) :
            /\ t1.raised = "none"
            /\ t1.pfs = {} =>
                 IF arg.t.pass THEN ret \in ThenTactic_apply(Tail(arg.t.ts), arg.t.pass, arg.seq)
                 ELSE ret.pfs = {}
            /\ t1.pfs # {} =>
                 \A pf1 \in t1.pfs : AllSpliced(arg.t.ts, arg.t.pass, arg.seq, pf1, ret.pfs)

\* R is P with the proofs of M spliced in: M[P.conclusion] when M has that
\* key; otherwise P's conclusion and rule over P's premises in order, each
\* sub-proof spliced in turn, each leaf replaced by its entry in M if any
RECURSIVE Spliced(_, _, _)
Spliced(P, M, R) ==
    IF P.conclusion \in DOMAIN M THEN R = M[P.conclusion]
    ELSE /\ IsProof(R)
         /\ R.conclusion = P.conclusion
         /\ R.rule = P.rule
         /\ Len(R.premises) = Len(P.premises)
         /\ \A i \in DOMAIN P.premises :
              IF IsProof(P.premises[i]) THEN Spliced(P.premises[i], M, R.premises[i])
              ELSE IF P.premises[i].conclusion \in DOMAIN M
                   THEN R.premises[i] = M[P.premises[i].conclusion]
                   ELSE R.premises[i] = P.premises[i]

\* C28: chain(P, M), for M from sequents to proofs, returns M[P.conclusion]
\* when P's conclusion is a key of M; otherwise a proof with P's conclusion
\* and rule whose premises are, in the original order, chain of each
\* sub-proof, M[L] for each leaf L that is a key of M and L itself for each
\* leaf that is not; with an empty M the result equals P.
C28_ChainSplices ==
    pc = "chained" =>
        /\ Spliced(arg.pf, arg.chains, ret)
        /\ DOMAIN arg.chains = {} => ret = arg.pf

\* a proof whose conclusion is no key, with a sub-proof whose conclusion is
\* no key either: a leaf under the sub-proof and a leaf at the root are keys
C28_Witness ==
    /\ pc = "chained"
    /\ arg.pf.conclusion \notin DOMAIN arg.chains
    /\ \E i, j \in DOMAIN arg.pf.premises :
         /\ IsProof(arg.pf.premises[i])
         /\ arg.pf.premises[i].conclusion \notin DOMAIN arg.chains
         /\ \E k \in DOMAIN arg.pf.premises[i].premises :
              /\ IsSequent(arg.pf.premises[i].premises[k])
              /\ arg.pf.premises[i].premises[k].conclusion \in DOMAIN arg.chains
              /\ ret.premises[i].premises[k] = arg.chains[arg.pf.premises[i].premises[k].conclusion]
         /\ IsSequent(arg.pf.premises[j])
         /\ arg.pf.premises[j].conclusion \in DOMAIN arg.chains
         /\ ret.premises[j] = arg.chains[arg.pf.premises[j].conclusion]
    /\ ret # arg.pf

\* q[e/x] true for the quantified assumption p = `@x . q true`
InstanceAt(p, e) == Proposition(apply_formula(p.p.a[1], Put(EmptyRho, Variable(p.p.n), e)))

\* the pairs of a quantified assumption of seq and a ground term
ForallPairs(grounds, seq) == { p \in Range(seq.gamma) : IsForall(p.p) } \X grounds

\* pr is the @L step for the pair pe: it concludes seq by @L or @Laff from one
\* open premise with seq's goal, whose gamma is seq.gamma without the
\* quantified assumption, followed by the instance
InstantiatesPair(pr, pe, seq) ==
    /\ IsProof(pr)
    /\ pr.conclusion = seq
    /\ pr.rule = (IF IsProposition(seq.delta) THEN "@L" ELSE "@Laff")
    /\ Len(pr.premises) = 1
    /\ IsSequent(pr.premises[1])
    /\ pr.premises[1].conclusion.delta = seq.delta
    /\ pr.premises[1].conclusion.gamma = without_goal(seq.gamma, pe[1]) \o << InstanceAt(pe[1], pe[2]) >>

\* C29: InstantiateForallTactic(grounds).apply(seq) returns, for each pair of
\* a quantified assumption `@x . q` of seq.gamma and a ground term e whose
\* instance q[e/x] is not in seq.gamma, the proof that concludes seq by @L
\* (truth goal) or @Laff (affirmation goal) from the single open premise
\* with goal seq.delta and gamma = seq.gamma without that assumption plus
\* `q[e/x] true`; it returns no proof for the other pairs and nothing else.
C29_InstantiateForall ==
    (pc = "tactic applied" /\ arg.t.kind = "forall") =>
        /\ ret.raised = "none"
        /\ \A pe \in ForallPairs(arg.t.grounds, arg.seq) :
             IF InstanceAt(pe[1], pe[2]) \notin Range(arg.seq.gamma)
             THEN Cardinality({ q \in ret.pfs : InstantiatesPair(q, pe, arg.seq) }) = 1
             ELSE \A q \in ret.pfs : ~InstantiatesPair(q, pe, arg.seq)
        /\ \A q \in ret.pfs :
             \E pe \in ForallPairs(arg.t.grounds, arg.seq) : InstantiatesPair(q, pe, arg.seq)

\* an affirmation goal with a quantified assumption of which one instance is
\* among the assumptions and another is not
C29_Witness ==
    /\ pc = "tactic applied"
    /\ arg.t.kind = "forall"
    /\ IsAffirmation(arg.seq.delta)
    /\ \E pe, pd \in ForallPairs(arg.t.grounds, arg.seq) :
         /\ pe[1] = pd[1]
         /\ InstanceAt(pe[1], pe[2]) \in Range(arg.seq.gamma)
         /\ InstanceAt(pd[1], pd[2]) \notin Range(arg.seq.gamma)
         /\ \E q \in ret.pfs : InstantiatesPair(q, pd, arg.seq)

\* C30 as stated: every proof returned by RuleTactic(R).apply(seq), by
\* InstantiateForallTactic(grounds).apply(seq) and by SignTactic(c, A).apply(seq)
\* concludes seq, and verify_step accepts its root step as an application of
\* its rule, whichever way the assumptions are listed; this includes the
\* instantiation of a quantified assumption whose bound variable does not
\* occur in its body.
C30_TacticStepsAccepted ==
    (pc = "tactic applied" /\ arg.t.kind \in {"rule", "forall", "sign"} /\ ret.raised = "none") =>
        \A p \in ret.pfs :
            /\ p.conclusion = arg.seq
            /\ \A ord \in Orders(p) : verify_step(p, ord) = "True"

====
